---- MODULE Spec2Model ----
(***************************************************************************)
(* Model of the Ivy Wallet -> Cashew migration engine                      *)
(* (src/src/lib/jsonToSqliteConvert.ts).                                   *)
(*                                                                         *)
(* Text values whose characters the code inspects (primary keys, names,    *)
(* currencies, colour strings) are sequences of one-character strings.     *)
(* An optional source field is <<>> when absent and <<v>> when present; a  *)
(* nullable column holds NULL (= <<>>) or <<v>>.  A millisecond timestamp  *)
(* is the pair <<seconds, milliseconds>>, because its value exceeds the    *)
(* integers TLC computes with.                                             *)
(*                                                                         *)
(* The embedded engine is modelled by its interface: execute(sql, params)  *)
(* and prepare(sql).getAsObject(params), the latter giving the first       *)
(* matching row.  What it gives when no row matches is the engine's        *)
(* choice, which the source does not fix: an object without keys, or an    *)
(* object that binds every selected column to undefined.                   *)
(***************************************************************************)
EXTENDS Integers, Sequences, FiniteSets, TLC

\* ------------------------------------------------------------------ bounds

MaxAccounts == 2
MaxCategories == 2
MaxTxns == 2
MaxRules == 1
MaxRuns == 2
DateSpan == 70
MaxIntervalN == 12
MaxUploads == 2
ColorSpan == 40
MaxOrderRows == 3
OrderSpan == 3

\* ------------------------------------------------------------------ text

Digits == <<"0", "1", "2", "3", "4", "5", "6", "7", "8", "9">>
HexDigits == Digits \o <<"a", "b", "c", "d", "e", "f">>
UpperCase == <<"A", "B", "C", "D", "E", "F", "G", "H", "I", "J", "K", "L", "M",
               "N", "O", "P", "Q", "R", "S", "T", "U", "V", "W", "X", "Y", "Z">>
LowerCase == <<"a", "b", "c", "d", "e", "f", "g", "h", "i", "j", "k", "l", "m",
               "n", "o", "p", "q", "r", "s", "t", "u", "v", "w", "x", "y", "z">>

Range(s) == {s[i] : i \in DOMAIN s}

IsDigit(c) == c \in Range(Digits)

\* String.prototype.toLowerCase, character by character.
LowerChar(c) ==
  IF \E i \in DOMAIN UpperCase : UpperCase[i] = c
  THEN LowerCase[CHOOSE i \in DOMAIN UpperCase : UpperCase[i] = c]
  ELSE c

ToLowerCase(s) == [i \in DOMAIN s |-> LowerChar(s[i])]

\* String.prototype.trim: leading and trailing blanks removed.
RECURSIVE TrimStart(_)
TrimStart(s) == IF s # <<>> /\ Head(s) = " " THEN TrimStart(Tail(s)) ELSE s

RECURSIVE TrimEnd(_)
TrimEnd(s) ==
  IF s # <<>> /\ s[Len(s)] = " " THEN TrimEnd(SubSeq(s, 1, Len(s) - 1)) ELSE s

Trim(s) == TrimEnd(TrimStart(s))

\* Position of a character in the collation order used to compare names.
CharCode(c) ==
  IF c = " " THEN 0
  ELSE IF \E i \in DOMAIN Digits : Digits[i] = c
  THEN CHOOSE i \in DOMAIN Digits : Digits[i] = c
  ELSE IF \E i \in DOMAIN LowerCase : LowerCase[i] = c
  THEN 20 + (CHOOSE i \in DOMAIN LowerCase : LowerCase[i] = c)
  ELSE 50 + (CHOOSE i \in DOMAIN UpperCase : UpperCase[i] = c)

\* a.localeCompare(b): negative, zero or positive.
RECURSIVE LocaleCompare(_, _)
LocaleCompare(a, b) ==
  IF a = <<>> /\ b = <<>> THEN 0
  ELSE IF a = <<>> THEN -1
  ELSE IF b = <<>> THEN 1
  ELSE IF CharCode(Head(a)) # CharCode(Head(b))
  THEN CharCode(Head(a)) - CharCode(Head(b))
  ELSE LocaleCompare(Tail(a), Tail(b))

\* Number.prototype.toString(10) of a non-negative integer.
RECURSIVE NumToStr(_)
NumToStr(n) ==
  IF n < 10 THEN <<Digits[n + 1]>>
  ELSE NumToStr(n \div 10) \o <<Digits[(n % 10) + 1]>>

\* Number.prototype.toString(16) of a non-negative integer.
RECURSIVE ToHex(_)
ToHex(n) ==
  IF n < 16 THEN <<HexDigits[n + 1]>>
  ELSE ToHex(n \div 16) \o <<HexDigits[(n % 16) + 1]>>

\* String.prototype.padStart(width, "0").
RECURSIVE PadStart(_, _)
PadStart(s, width) == IF Len(s) >= width THEN s ELSE PadStart(<<"0">> \o s, width)

\* ------------------------------------------------------------------ helpers

DEFAULT_TITLE ==
  <<"U", "n", "n", "a", "m", "e", "d", " ",
    "T", "r", "a", "n", "s", "a", "c", "t", "i", "o", "n">>
DEFAULT_CATEGORY_NAME ==
  <<"U", "n", "c", "a", "t", "e", "g", "o", "r", "i", "z", "e", "d">>

NULL == <<>>

\* x ?? d on an optional field.
OrElse(opt, d) == IF opt = <<>> THEN d ELSE opt[1]

RECURSIVE Pow2(_)
Pow2(n) == IF n = 0 THEN 1 ELSE 2 * Pow2(n - 1)

\* The << operator: the shift count is taken modulo 32.
ShiftLeft(x, n) == x * Pow2(n % 32)

\* x & 0xffffff on the two's-complement value of x.
MaskLow24(x) == x % Pow2(24)

intColorToHex(colorInt) ==
  LET c == IF colorInt < 0 THEN ShiftLeft(1, 32) + colorInt ELSE colorInt
  IN  <<"0", "x", "f", "f">> \o PadStart(ToHex(MaskLow24(c)), 6)

getIconNameForCategory(name) == "image.png"

enumReoccurrenceFromInterval(intervalType) ==
  CASE intervalType = "CUSTOM" -> 0
    [] intervalType = "DAILY" -> 1
    [] intervalType = "WEEKLY" -> 2
    [] intervalType = "MONTH" -> 3
    [] intervalType = "YEAR" -> 4
    [] OTHER -> 0

enumTransactionTypeFromString_NoCode(txnType) == NULL

enumTransactionTypeFromString(txnType) ==
  IF txnType \in {"EXPENSE", "INCOME", "TRANSFER"} THEN NULL
  ELSE CASE txnType = "UPCOMING" -> <<0>>
         [] txnType = "SUBSCRIPTION" -> <<1>>
         [] txnType = "REPETITIVE" -> <<2>>
         [] txnType = "CREDIT" -> <<3>>
         [] txnType = "DEBT" -> <<4>>
         [] OTHER -> <<0>>

\* Math.floor(ms / 1000) of a timestamp <<seconds, milliseconds>>.
FloorSec(ms) == ms[1]

\* seconds * 1000.
ToMs(sec) == <<sec, 0>>

\* generateUUID: the n-th identifier minted; like every UUID it holds a hyphen
\* and no colon.
generateUUID(n) == <<"u", "-">> \o NumToStr(n)

\* ------------------------------------------------------------------ dates
\* A Date object is [days, secs, ms]: the day number since 1970-01-01, the second
\* of the day and the millisecond; local time is taken to be UTC.

DaysFromCivil(y, m, d) ==
  LET yy == IF m <= 2 THEN y - 1 ELSE y
      era == yy \div 400
      yoe == yy - era * 400
      mp == IF m > 2 THEN m - 3 ELSE m + 9
      doy == (153 * mp + 2) \div 5 + d - 1
      doe == yoe * 365 + yoe \div 4 - yoe \div 100 + doy
  IN  era * 146097 + doe - 719468

CivilFromDays(days) ==
  LET z == days + 719468
      era == z \div 146097
      doe == z - era * 146097
      yoe == (doe - doe \div 1460 + doe \div 36524 - doe \div 146096) \div 365
      doy == doe - (365 * yoe + yoe \div 4 - yoe \div 100)
      mp == (5 * doy + 2) \div 153
      d == doy - (153 * mp + 2) \div 5 + 1
      m == IF mp < 10 THEN mp + 3 ELSE mp - 9
      y == yoe + era * 400 + (IF m <= 2 THEN 1 ELSE 0)
  IN  [year |-> y, month |-> m, day |-> d]

\* new Date(ms)
NewDate(ms) ==
  [days |-> ms[1] \div 86400, secs |-> ms[1] % 86400, ms |-> ms[2]]

getDate(dt) == CivilFromDays(dt.days).day
\* getMonth counts from 0.
getMonth(dt) == CivilFromDays(dt.days).month - 1
getFullYear(dt) == CivilFromDays(dt.days).year

\* setDate(n): day n of the current month, days outside the month carrying over.
setDate(dt, n) ==
  LET c == CivilFromDays(dt.days)
  IN  [dt EXCEPT !.days = DaysFromCivil(c.year, c.month, 1) + n - 1]

\* setMonth(mo): month mo (from 0) of the current year, months outside the year
\* and days outside the month carrying over.
setMonth(dt, mo) ==
  LET c == CivilFromDays(dt.days)
      y == c.year + mo \div 12
      m == (mo % 12) + 1
  IN  [dt EXCEPT !.days = DaysFromCivil(y, m, 1) + c.day - 1]

\* setFullYear(y): same month and day of year y, Feb 29 carrying over to Mar 1.
setFullYear(dt, y) ==
  LET c == CivilFromDays(dt.days)
  IN  [dt EXCEPT !.days = DaysFromCivil(y, c.month, 1) + c.day - 1]

\* Math.floor(dt.getTime() / 1000)
getTimeSec(dt) == dt.days * 86400 + dt.secs

getNextDateForRecurringRule_NoClamp(startDateMs, intervalType, intervalN) ==
  LET dt == NewDate(startDateMs)
      next ==
        CASE intervalType = "DAILY" -> setDate(dt, getDate(dt) + intervalN)
          [] intervalType = "WEEKLY" -> setDate(dt, getDate(dt) + intervalN * 7)
          [] intervalType = "MONTH" -> setMonth(dt, getMonth(dt) + intervalN)
          [] intervalType = "YEAR" -> setFullYear(dt, getFullYear(dt) + intervalN)
          [] OTHER -> dt
  IN  getTimeSec(next)

getNextDateForRecurringRule(startDateMs, intervalType, intervalN) ==
  LET dt == NewDate(startDateMs)
      next ==
        CASE intervalType = "DAILY" -> setDate(dt, getDate(dt) + intervalN)
          [] intervalType = "WEEKLY" -> setDate(dt, getDate(dt) + intervalN * 7)
          [] intervalType = "MONTH" ->
               LET originalDayOfMonth == getDate(dt)
                   moved == setMonth(dt, getMonth(dt) + intervalN)
               IN  IF getDate(moved) < originalDayOfMonth
                   THEN setDate(moved, 0) ELSE moved
          [] intervalType = "YEAR" ->
               LET originalMonth == getMonth(dt)
                   originalDay == getDate(dt)
                   moved == setFullYear(dt, getFullYear(dt) + intervalN)
               IN  IF originalMonth = 1 /\ originalDay = 29
                      /\ getMonth(moved) = 2 /\ getDate(moved) = 1
                   THEN setDate(moved, 0) ELSE moved
          [] OTHER -> dt
  IN  getTimeSec(next)

\* ------------------------------------------------------------------ keys

\* The series marker '::predict::'.
PredictMarker == <<":", ":", "p", "r", "e", "d", "i", "c", "t", ":", ":">>

GlobNonDigit_FirstOnly(pk) == pk # <<>> /\ ~IsDigit(pk[1])

\* pk GLOB '*[^0-9]*': the key holds at least one character that is no digit.
GlobNonDigit(pk) == \E i \in DOMAIN pk : ~IsDigit(pk[i])

\* value.split('::')[0]: the text before the first '::', or all of it.
SplitFirst(value) ==
  LET hits == {i \in 1..(Len(value) - 1) : value[i] = ":" /\ value[i + 1] = ":"}
  IN  IF hits = {} THEN value
      ELSE SubSeq(value, 1, (CHOOSE i \in hits : \A j \in hits : i <= j) - 1)

\* ------------------------------------------------------------------ engine

\* A JavaScript object used as a map: the value under a key, when there is one.
Lookup(map, key) == IF key \in DOMAIN map THEN <<map[key]>> ELSE <<>>

LookupOpt(map, optKey) == IF optKey = <<>> THEN <<>> ELSE Lookup(map, optKey[1])

\* map[key] = value
Put(map, key, value) == (key :> value) @@ map

EmptyMap == <<>>

\* What getAsObject returns when the statement selects no row.
LookupMisses == {"no keys", "undefined values"}

VARIABLE lookupMiss   \* the engine's choice among LookupMisses

\* stmt.getAsObject(params) on the rows the statement selects: an object with
\* the columns of the first row; for no row, an object without keys or one
\* whose columns are all undefined.
getAsObject(rows) ==
  IF rows = <<>>
  THEN [keys |-> lookupMiss = "undefined values", row |-> <<>>]
  ELSE [keys |-> TRUE, row |-> <<Head(rows)>>]

\* Object.keys(obj).length > 0
HasKeys(obj) == obj.keys

\* obj[column] is neither undefined nor null
HasValue(obj) == obj.row # <<>>

Tables == {"wallets", "categories", "transactions", "associated_titles"}

PkOf(table, row) ==
  CASE table = "wallets" -> row.wallet_pk
    [] table = "categories" -> row.category_pk
    [] table = "transactions" -> row.transaction_pk
    [] table = "associated_titles" -> row.associated_title_pk

\* DELETE FROM table WHERE pk GLOB '*[^0-9]*'
DeleteNonNumeric(table, rows) ==
  SelectSeq(rows, LAMBDA r : ~GlobNonDigit(PkOf(table, r)))

clearOldData_KeepTransactions(d) ==
  [t \in Tables |-> IF t = "transactions" THEN d[t] ELSE DeleteNonNumeric(t, d[t])]

clearOldData(d) == [t \in Tables |-> DeleteNonNumeric(t, d[t])]

RECURSIVE ProbeOrder(_, _)
ProbeOrder(rows, orderNum) ==
  IF \E i \in DOMAIN rows : rows[i].order = orderNum
  THEN ProbeOrder(rows, orderNum + 1)
  ELSE orderNum

getNextAvailableOrder(rows) == ProbeOrder(rows, 0)

\* The comparator of both sorts: orderNum ?? 0, then the lower-cased name.
CompareEntities(a, b) ==
  LET orderA == OrElse(a.orderNum, 0)
      orderB == OrElse(b.orderNum, 0)
  IN  IF orderA # orderB THEN orderA - orderB
      ELSE LocaleCompare(ToLowerCase(a.name), ToLowerCase(b.name))

\* Array.prototype.sort is stable: an element goes behind those it does not
\* precede.
RECURSIVE InsertSorted(_, _)
InsertSorted(sorted, x) ==
  IF sorted = <<>> THEN <<x>>
  ELSE IF CompareEntities(Head(sorted), x) <= 0
  THEN <<Head(sorted)>> \o InsertSorted(Tail(sorted), x)
  ELSE <<x>> \o sorted

RECURSIVE SortEntities(_)
SortEntities(list) ==
  IF list = <<>> THEN <<>>
  ELSE InsertSorted(SortEntities(SubSeq(list, 1, Len(list) - 1)), list[Len(list)])

\* ------------------------------------------------------------------ wallets

\* walletDates[id]: the earliest second at which a transaction names the account
\* as its account or, for a transfer, as its destination.
walletDates(data, id) ==
  LET secs == {FloorSec(data.transactions[i].dateTime[1]) :
                 i \in {j \in DOMAIN data.transactions :
                          /\ data.transactions[j].dateTime # <<>>
                          /\ \/ data.transactions[j].accountId = id
                             \/ /\ data.transactions[j].type = "TRANSFER"
                                /\ data.transactions[j].toAccountId = <<id>>}}
  IN  IF secs = {} THEN <<>>
      ELSE <<CHOOSE s \in secs : \A t \in secs : s <= t>>

UpdateWalletCurrency_AlsoOrder(rows, currency, name) ==
  [i \in DOMAIN rows |->
     IF rows[i].name = name
     THEN [rows[i] EXCEPT !.currency = currency, !.order = 0]
     ELSE rows[i]]

\* UPDATE wallets SET currency = ? WHERE name = ?
UpdateWalletCurrency(rows, currency, name) ==
  [i \in DOMAIN rows |->
     IF rows[i].name = name THEN [rows[i] EXCEPT !.currency = currency]
     ELSE rows[i]]

\* SELECT wallet_pk FROM wallets WHERE name = ?
SelectWalletByName_NoMatch(rows, name) == SelectSeq(rows, LAMBDA r : FALSE)

\* SELECT wallet_pk FROM wallets WHERE name = ?
SelectWalletByName(rows, name) == SelectSeq(rows, LAMBDA r : r.name = name)

WalletRow(walletPk, w, dateCreated, currentOrderNum) ==
  [wallet_pk |-> walletPk, name |-> w.name, colour |-> intColorToHex(w.color),
   icon_name |-> "image.png", date_created |-> dateCreated,
   order |-> currentOrderNum, currency |-> ToLowerCase(w.currency),
   decimals |-> 2]

\* One pass of the loop over walletsSorted; acc is [rows, walletPkMap,
\* walletIdToName, uuid, currentOrderNum].
WalletStep(acc, w, data, now) ==
  LET walletPk == generateUUID(acc.uuid)
      dateCreated == OrElse(walletDates(data, w.id), now)
      existingWallet == getAsObject(SelectWalletByName(acc.rows, w.name))
      base == [acc EXCEPT !.uuid = acc.uuid + 1,
                          !.walletIdToName = Put(acc.walletIdToName, w.id, w.name)]
  IN  IF /\ HasKeys(existingWallet)
         /\ HasValue(existingWallet)
         /\ existingWallet.row[1].wallet_pk # <<>>
      THEN [base EXCEPT
              !.walletPkMap = Put(acc.walletPkMap, w.id, existingWallet.row[1].wallet_pk),
              !.rows = UpdateWalletCurrency(acc.rows, ToLowerCase(w.currency), w.name)]
      ELSE [base EXCEPT
              !.walletPkMap = Put(acc.walletPkMap, w.id, walletPk),
              !.rows = Append(acc.rows,
                              WalletRow(walletPk, w, dateCreated, acc.currentOrderNum)),
              !.currentOrderNum = acc.currentOrderNum + 1]

RECURSIVE WalletLoop(_, _, _, _)
WalletLoop(acc, ws, data, now) ==
  IF ws = <<>> THEN acc
  ELSE WalletLoop(WalletStep(acc, Head(ws), data, now), Tail(ws), data, now)

processWallets(rows, data, uuid, now) ==
  WalletLoop([rows |-> rows, walletPkMap |-> EmptyMap, walletIdToName |-> EmptyMap,
              uuid |-> uuid, currentOrderNum |-> getNextAvailableOrder(rows)],
             SortEntities(data.accounts), data, now)

\* ------------------------------------------------------------------ categories

\* incomeCategoryIds.has(id)
IsIncomeCategory(data, id) ==
  \E i \in DOMAIN data.transactions :
    /\ data.transactions[i].type = "INCOME"
    /\ data.transactions[i].categoryId = <<id>>

IsDefaultName(name) ==
  ToLowerCase(Trim(name)) = ToLowerCase(DEFAULT_CATEGORY_NAME)

\* 0xff999999 & 0xffffff: the literal is positive and above the integers TLC
\* computes with; only its low 24 bits reach the colour string.
GrayColor == 10066329

CategoryRow(categoryPk, name, colour, now, currentOrderNum, incomeFlag) ==
  [category_pk |-> categoryPk, name |-> name, colour |-> colour,
   icon_name |-> getIconNameForCategory(name), emoji_icon_name |-> NULL,
   date_created |-> now, order |-> currentOrderNum, income |-> incomeFlag,
   method_added |-> NULL, main_category_pk |-> NULL]

\* UPDATE categories SET colour = ? WHERE name = ?
UpdateCategoryColour(rows, colour, name) ==
  [i \in DOMAIN rows |->
     IF rows[i].name = name THEN [rows[i] EXCEPT !.colour = colour]
     ELSE rows[i]]

\* SELECT category_pk FROM categories WHERE name = ?
SelectCategoryByName(rows, name) == SelectSeq(rows, LAMBDA r : r.name = name)

\* The first loop: the first sorted category bearing the default name gets a
\* fresh key in the map. acc is [rows, categoryPkMap, defaultCategoryPk, uuid,
\* currentOrderNum]; defaultCategoryPk is <<>> while it is null.
FindDefaultCategory(acc, sorted) ==
  LET hits == {i \in DOMAIN sorted : IsDefaultName(sorted[i].name)}
  IN  IF hits = {} THEN acc
      ELSE LET first == CHOOSE i \in hits : \A j \in hits : i <= j
               pk == generateUUID(acc.uuid)
           IN  [acc EXCEPT !.uuid = acc.uuid + 1,
                           !.defaultCategoryPk = pk,
                           !.categoryPkMap = Put(acc.categoryPkMap, sorted[first].id, pk)]

\* The default category is inserted when the source list names none.
CreateDefaultCategory(acc, now) ==
  IF acc.defaultCategoryPk # <<>> THEN acc
  ELSE LET pk == generateUUID(acc.uuid)
       IN  [acc EXCEPT
              !.uuid = acc.uuid + 1,
              !.defaultCategoryPk = pk,
              !.rows = Append(acc.rows,
                              CategoryRow(pk, DEFAULT_CATEGORY_NAME,
                                          intColorToHex(GrayColor), now,
                                          acc.currentOrderNum, 0)),
              !.currentOrderNum = acc.currentOrderNum + 1]

\* One pass of the second loop over categoriesSorted.
CategoryStep(acc, cat, data, now) ==
  IF cat.id \in DOMAIN acc.categoryPkMap THEN acc
  ELSE
    LET categoryPk == generateUUID(acc.uuid)
        color == intColorToHex(cat.color)
        incomeFlag == IF IsIncomeCategory(data, cat.id) THEN 1 ELSE 0
        existingCategory == getAsObject(SelectCategoryByName(acc.rows, cat.name))
        base == [acc EXCEPT !.uuid = acc.uuid + 1]
    IN  IF HasKeys(existingCategory) /\ HasValue(existingCategory)
        THEN [base EXCEPT
                !.categoryPkMap =
                   Put(acc.categoryPkMap, cat.id, existingCategory.row[1].category_pk),
                !.rows = UpdateCategoryColour(acc.rows, color, cat.name)]
        ELSE [base EXCEPT
                !.categoryPkMap = Put(acc.categoryPkMap, cat.id, categoryPk),
                !.rows = Append(acc.rows,
                                CategoryRow(categoryPk, cat.name, color, now,
                                            acc.currentOrderNum, incomeFlag)),
                !.currentOrderNum = acc.currentOrderNum + 1]

RECURSIVE CategoryLoop(_, _, _, _)
CategoryLoop(acc, cats, data, now) ==
  IF cats = <<>> THEN acc
  ELSE CategoryLoop(CategoryStep(acc, Head(cats), data, now), Tail(cats), data, now)

processCategories(rows, data, uuid, now) ==
  LET sorted == SortEntities(data.categories)
      found == FindDefaultCategory(
                 [rows |-> rows, categoryPkMap |-> EmptyMap,
                  defaultCategoryPk |-> <<>>, uuid |-> uuid, currentOrderNum |-> 0],
                 sorted)
      ordered == [found EXCEPT !.currentOrderNum = getNextAvailableOrder(rows)]
  IN  CategoryLoop(CreateDefaultCategory(ordered, now), sorted, data, now)

\* ------------------------------------------------------------------ transactions

TransferPrefix ==
  <<"T", "r", "a", "n", "s", "f", "e", "r", "r", "e", "d", " ",
    "B", "a", "l", "a", "n", "c", "e", ":", " ">>
TransferArrow == <<" ", "-", ">", " ">>

\* recurringRuleIdToObj[id]: the last rule of the list with that id.
SourceRuleIds(data) == {data.plannedPaymentRules[i].id : i \in DOMAIN data.plannedPaymentRules}

recurringRuleIdToObj(data, id) ==
  LET hits == {i \in DOMAIN data.plannedPaymentRules :
                 data.plannedPaymentRules[i].id = id}
  IN  data.plannedPaymentRules[CHOOSE i \in hits : \A j \in hits : j <= i]

\* The columns an INSERT INTO transactions leaves out are NULL.
TxnRow(pk, name, amount, note, categoryFk, walletFk, dateCreated, income, paid, future, paired, type, now, periodLength, reoccurrence, originalDateDue) ==
  [transaction_pk |-> pk, name |-> name, amount |-> amount, note |-> note,
   category_fk |-> categoryFk, wallet_fk |-> walletFk,
   date_created |-> dateCreated, income |-> income, paid |-> paid,
   created_another_future_transaction |-> future,
   paired_transaction_fk |-> paired, type |-> type, date_time_modified |-> now,
   period_length |-> periodLength, reoccurrence |-> reoccurrence,
   original_date_due |-> originalDateDue]

TransferIncomeAmount_IgnoreToAmount(txn) == txn.amount

\* txn.toAmount ?? txn.amount ?? 0
TransferIncomeAmount(txn) == OrElse(txn.toAmount, txn.amount)

\* amount * ((incomeFlag * 2) - 1)
SignedAmount(amount, incomeFlag) == amount * ((incomeFlag * 2) - 1)

\* The two rows of a transfer, the income part first.
TransferRows(txn, incomePk, expensePk, categoryFk, fromWalletFk, toWalletFk, dateCreated, note, now) ==
  << TxnRow(incomePk, OrElse(txn.title, DEFAULT_TITLE), TransferIncomeAmount(txn),
            note, categoryFk, toWalletFk, dateCreated, 1, 1, 0, NULL,
            enumTransactionTypeFromString("TRANSFER"), now, NULL, NULL, NULL),
     TxnRow(expensePk, OrElse(txn.title, DEFAULT_TITLE), txn.amount * (-1),
            note, categoryFk, fromWalletFk, dateCreated, 0, 1, 0, incomePk,
            enumTransactionTypeFromString("TRANSFER"), now, NULL, NULL, NULL) >>

PredictPk_AlwaysOne(base, count) == base \o PredictMarker \o NumToStr(1)

\* base + '::predict::' + count
PredictPk(base, count) == base \o PredictMarker \o NumToStr(count)

\* One pass of the loop over data.transactions; acc is [rows, uuid, txnPkMap,
\* recurringRuleIdToTxnPk, recurringRuleIdToCount, recurringRuleIdToLatestTxnPk,
\* recurringRuleIdToLatestDate, ruleKeys], ruleKeys being the keys of
\* recurringRuleIdToLatestTxnPk in the order they were added.
TxnStep(acc, txn, maps, data, now) ==
  LET walletFk == Lookup(maps.walletPkMap, txn.accountId)
      categoryFk == OrElse(LookupOpt(maps.categoryPkMap, txn.categoryId),
                           maps.defaultCategoryPk)
  IN
  IF walletFk = <<>> \/ walletFk[1] = <<>> \/ txn.dateTime = <<>> THEN acc
  ELSE
    LET floorSec == FloorSec(txn.dateTime[1])
        dateCreated == IF floorSec # 0 THEN floorSec ELSE now
        incomeFlag == IF txn.type = "INCOME" THEN 1 ELSE 0
    IN
    IF txn.type = "TRANSFER"
    THEN
      LET toWalletFk == LookupOpt(maps.walletPkMap, txn.toAccountId)
      IN  IF toWalletFk = <<>> \/ toWalletFk[1] = <<>> THEN acc
          ELSE
            LET note == TransferPrefix \o maps.walletIdToName[txn.accountId]
                          \o TransferArrow
                          \o maps.walletIdToName[txn.toAccountId[1]]
                incomeTxnPk == generateUUID(acc.uuid)
                expenseTxnPk == generateUUID(acc.uuid + 1)
            IN  [acc EXCEPT
                   !.uuid = acc.uuid + 2,
                   !.txnPkMap = Put(acc.txnPkMap, txn.id, <<incomeTxnPk, expenseTxnPk>>),
                   !.rows = acc.rows \o
                              TransferRows(txn, incomeTxnPk, expenseTxnPk, categoryFk,
                                           walletFk[1], toWalletFk[1], dateCreated,
                                           note, now)]
    ELSE
      LET txnPk == generateUUID(acc.uuid)
          note == txn.description
      IN
      IF txn.recurringRuleId # <<>> /\ txn.recurringRuleId[1] \in SourceRuleIds(data)
      THEN
        LET recurringRuleId == txn.recurringRuleId[1]
            rule == recurringRuleIdToObj(data, recurringRuleId)
            first == recurringRuleId \notin DOMAIN acc.recurringRuleIdToTxnPk
            toTxnPk == IF first
                       THEN Put(acc.recurringRuleIdToTxnPk, recurringRuleId, txnPk)
                       ELSE acc.recurringRuleIdToTxnPk
            toCount == IF first
                       THEN Put(acc.recurringRuleIdToCount, recurringRuleId, 1)
                       ELSE Put(acc.recurringRuleIdToCount, recurringRuleId,
                                acc.recurringRuleIdToCount[recurringRuleId] + 1)
            toLatestDate ==
              IF first
              THEN Put(acc.recurringRuleIdToLatestDate, recurringRuleId, dateCreated)
              ELSE acc.recurringRuleIdToLatestDate
            tempRecurringPk ==
              PredictPk(toTxnPk[recurringRuleId], toCount[recurringRuleId])
        IN  [acc EXCEPT
               !.uuid = acc.uuid + 1,
               !.txnPkMap = Put(acc.txnPkMap, txn.id, <<txnPk>>),
               !.recurringRuleIdToTxnPk = toTxnPk,
               !.recurringRuleIdToCount = toCount,
               !.recurringRuleIdToLatestDate = toLatestDate,
               !.recurringRuleIdToLatestTxnPk =
                  Put(acc.recurringRuleIdToLatestTxnPk, recurringRuleId,
                      tempRecurringPk),
               !.ruleKeys =
                  IF recurringRuleId \in DOMAIN acc.recurringRuleIdToLatestTxnPk
                  THEN acc.ruleKeys ELSE Append(acc.ruleKeys, recurringRuleId),
               !.rows = Append(acc.rows,
                  TxnRow(tempRecurringPk, OrElse(txn.title, DEFAULT_TITLE),
                         SignedAmount(txn.amount, incomeFlag), note, categoryFk,
                         walletFk[1], dateCreated, incomeFlag, 1, 1, NULL,
                         enumTransactionTypeFromString("REPETITIVE"), now,
                         <<OrElse(rule.intervalN, 1)>>,
                         <<enumReoccurrenceFromInterval(
                             OrElse(rule.intervalType, "MONTH"))>>,
                         NULL))]
      ELSE
        [acc EXCEPT
           !.uuid = acc.uuid + 1,
           !.txnPkMap = Put(acc.txnPkMap, txn.id, <<txnPk>>),
           !.rows = Append(acc.rows,
              TxnRow(txnPk, OrElse(txn.title, DEFAULT_TITLE),
                     SignedAmount(txn.amount, incomeFlag), note, categoryFk,
                     walletFk[1], dateCreated, incomeFlag, 1, 0, NULL,
                     enumTransactionTypeFromString(txn.type), now,
                     NULL, NULL, NULL))]

RECURSIVE TxnLoop_StopsAtSkip(_, _, _, _, _)
TxnLoop_StopsAtSkip(acc, txns, maps, data, now) ==
  IF txns = <<>> \/ TxnStep(acc, Head(txns), maps, data, now) = acc THEN acc
  ELSE TxnLoop_StopsAtSkip(TxnStep(acc, Head(txns), maps, data, now), Tail(txns),
                           maps, data, now)

RECURSIVE TxnLoop(_, _, _, _, _)
TxnLoop(acc, txns, maps, data, now) ==
  IF txns = <<>> THEN acc
  ELSE TxnLoop(TxnStep(acc, Head(txns), maps, data, now), Tail(txns), maps, data, now)

processTransactions(rows, data, maps, uuid, now) ==
  TxnLoop([rows |-> rows, uuid |-> uuid, txnPkMap |-> EmptyMap,
           recurringRuleIdToTxnPk |-> EmptyMap, recurringRuleIdToCount |-> EmptyMap,
           recurringRuleIdToLatestTxnPk |-> EmptyMap,
           recurringRuleIdToLatestDate |-> EmptyMap, ruleKeys |-> <<>>],
          data.transactions, maps, data, now)

\* ------------------------------------------------------------------ finalize

\* UPDATE transactions SET transaction_pk = ? WHERE transaction_pk = ?
\* The statement fails, and changes nothing, when it would give a row a key
\* another row holds; the caller logs the error and goes on.
UpdateTransactionPk(rows, originalPk, value) ==
  IF /\ \E i \in DOMAIN rows : rows[i].transaction_pk = value
     /\ \E i \in DOMAIN rows : rows[i].transaction_pk = originalPk
     /\ originalPk # value
  THEN rows
  ELSE [i \in DOMAIN rows |->
          IF rows[i].transaction_pk = value
          THEN [rows[i] EXCEPT !.transaction_pk = originalPk]
          ELSE rows[i]]

RECURSIVE updateRecurringTransactionPks(_, _, _)
updateRecurringTransactionPks(rows, keys, recurringRuleIdToLatestTxnPk) ==
  IF keys = <<>> THEN rows
  ELSE LET value == recurringRuleIdToLatestTxnPk[Head(keys)]
           originalPk == SplitFirst(value)
       IN  updateRecurringTransactionPks(
             UpdateTransactionPk(rows, originalPk, value), Tail(keys),
             recurringRuleIdToLatestTxnPk)

\* ------------------------------------------------------------------ planned payments

RecurringPk_SameCount(rule, maps, uuid) ==
  IF rule.id \notin DOMAIN maps.recurringRuleIdToTxnPk
  THEN generateUUID(uuid)
  ELSE PredictPk(SplitFirst(maps.recurringRuleIdToTxnPk[rule.id]),
                 OrElse(Lookup(maps.recurringRuleIdToCount, rule.id), 0))

\* The key of the projected row of a rule.
RecurringPk(rule, maps, uuid) ==
  IF rule.id \notin DOMAIN maps.recurringRuleIdToTxnPk
  THEN generateUUID(uuid)
  ELSE LET basePk == SplitFirst(maps.recurringRuleIdToTxnPk[rule.id])
           currentCount == OrElse(Lookup(maps.recurringRuleIdToCount, rule.id), 0)
       IN  PredictPk(basePk, currentCount + 1)

RuleReachesInsert_NeedsCategory(rule, maps) ==
  /\ rule.startDate # <<>>
  /\ rule.categoryId # <<>>
  /\ LET walletFk == Lookup(maps.walletPkMap, rule.accountId)
     IN  ~(walletFk = <<>> \/ walletFk[1] = <<>>)

\* The rule passes the two checks that precede the INSERT of its projected
\* row: startDate is there, and neither walletFk nor categoryFk is falsy.
RuleReachesInsert(rule, maps) ==
  /\ rule.startDate # <<>>
  /\ LET walletFk == Lookup(maps.walletPkMap, rule.accountId)
         categoryFk == OrElse(LookupOpt(maps.categoryPkMap, rule.categoryId),
                              maps.defaultCategoryPk)
     IN  ~(walletFk = <<>> \/ walletFk[1] = <<>> \/ categoryFk = <<>>)

\* One pass of the loop over plannedPayments; acc is [rows, uuid].
PlannedStep(acc, rule, maps, now) ==
  IF ~RuleReachesInsert(rule, maps) THEN acc
  ELSE
    LET walletFk == Lookup(maps.walletPkMap, rule.accountId)
        categoryFk == OrElse(LookupOpt(maps.categoryPkMap, rule.categoryId),
                             maps.defaultCategoryPk)
    IN
      LET fresh == rule.id \notin DOMAIN maps.recurringRuleIdToTxnPk
          recurringPk == RecurringPk(rule, maps, acc.uuid)
          intervalType == OrElse(rule.intervalType, "CUSTOM")
          intervalN == OrElse(rule.intervalN, 1)
          incomeFlag == IF rule.type = "INCOME" THEN 1 ELSE 0
          correctedStartDateSec ==
            IF rule.id \in DOMAIN maps.recurringRuleIdToLatestDate
            THEN getNextDateForRecurringRule(
                   ToMs(maps.recurringRuleIdToLatestDate[rule.id]),
                   intervalType, intervalN)
            ELSE FloorSec(rule.startDate[1])
      IN  [acc EXCEPT
             !.uuid = IF fresh THEN acc.uuid + 1 ELSE acc.uuid,
             !.rows = Append(acc.rows,
                TxnRow(recurringPk, OrElse(rule.title, DEFAULT_TITLE),
                       SignedAmount(rule.amount, incomeFlag), <<>>, categoryFk,
                       walletFk[1], correctedStartDateSec, incomeFlag, 0, 0, NULL,
                       enumTransactionTypeFromString("REPETITIVE"), now,
                       <<intervalN>>,
                       <<enumReoccurrenceFromInterval(intervalType)>>,
                       <<correctedStartDateSec>>))]

RECURSIVE PlannedLoop(_, _, _, _)
PlannedLoop(acc, rules, maps, now) ==
  IF rules = <<>> THEN acc
  ELSE PlannedLoop(PlannedStep(acc, Head(rules), maps, now), Tail(rules), maps, now)

processPlannedPayments(rows, data, maps, uuid, now) ==
  PlannedLoop([rows |-> rows, uuid |-> uuid], data.plannedPaymentRules, maps, now)

\* ------------------------------------------------------------------ titles

\* SELECT * FROM associated_titles WHERE title = ? AND category_fk = ?
SelectTitle(rows, title, categoryPk) ==
  SelectSeq(rows, LAMBDA r : r.title = title /\ r.category_fk = categoryPk)

\* One pass of the loop over data.transactions; acc is [rows, uuid, seen,
\* orderCounter], seen holding the pairs <<categoryPk, title>> already handled.
TitleStep(acc, txn, maps, now) ==
  IF txn.categoryId = <<>> \/ txn.title = <<>> \/ txn.title = <<<<>>>> THEN acc
  ELSE
    LET title == txn.title[1]
        categoryPk == OrElse(LookupOpt(maps.categoryPkMap, txn.categoryId),
                             maps.defaultCategoryPk)
    IN  IF <<categoryPk, title>> \in acc.seen THEN acc
        ELSE
          LET existingTitle == getAsObject(SelectTitle(acc.rows, title, categoryPk))
              marked == [acc EXCEPT !.seen = acc.seen \cup {<<categoryPk, title>>}]
          IN  IF ~HasKeys(existingTitle)
              THEN [marked EXCEPT
                      !.uuid = acc.uuid + 1,
                      !.rows = Append(acc.rows,
                         [associated_title_pk |-> generateUUID(acc.uuid),
                          title |-> title, category_fk |-> categoryPk,
                          date_created |-> now, order |-> acc.orderCounter]),
                      !.orderCounter = acc.orderCounter + 1]
              ELSE marked

RECURSIVE TitleLoop(_, _, _, _)
TitleLoop(acc, txns, maps, now) ==
  IF txns = <<>> THEN acc
  ELSE TitleLoop(TitleStep(acc, Head(txns), maps, now), Tail(txns), maps, now)

processAssociatedTitles(rows, data, maps, uuid, now) ==
  TitleLoop([rows |-> rows, uuid |-> uuid, seen |-> {}, orderCounter |-> 0],
            data.transactions, maps, now)

\* ------------------------------------------------------------------ inputs

Cash == <<"C", "a", "s", "h">>
cash == <<"c", "a", "s", "h">>
Bank == <<"B", "a", "n", "k">>
Food == <<"F", "o", "o", "d">>
food == <<"f", "o", "o", "d">>
Rent == <<"R", "e", "n", "t">>
USD == <<"U", "S", "D">>
EUR == <<"E", "U", "R">>
usd == <<"u", "s", "d">>

\* 2024-01-31T00:00:00Z and 2024-02-29T12:00:00.250Z
DateJan31 == <<1706659200, 0>>
DateFeb29 == <<1709208000, 250>>

\* Source records without their id, which is given by the place in the list.
AccountTemplates ==
  { [name |-> Cash, currency |-> USD, color |-> -1, orderNum |-> <<1>>],
    [name |-> cash, currency |-> EUR, color |-> 65280, orderNum |-> <<>>],
    [name |-> Bank, currency |-> USD, color |-> 0, orderNum |-> <<0>>] }

CategoryTemplates ==
  { [name |-> Food, color |-> 255, orderNum |-> <<1>>],
    [name |-> food, color |-> -16711936, orderNum |-> <<>>],
    [name |-> DEFAULT_CATEGORY_NAME, color |-> -1, orderNum |-> <<0>>] }

TxnTemplates ==
  { [accountId |-> "a1", toAccountId |-> <<>>, categoryId |-> <<"c1">>,
     type |-> "EXPENSE", amount |-> 5, toAmount |-> <<>>, dateTime |-> <<DateJan31>>,
     title |-> <<Rent>>, description |-> <<>>, recurringRuleId |-> <<>>],
    [accountId |-> "a2", toAccountId |-> <<>>, categoryId |-> <<"c1">>,
     type |-> "INCOME", amount |-> 9, toAmount |-> <<>>, dateTime |-> <<DateFeb29>>,
     title |-> <<Rent>>, description |-> Food, recurringRuleId |-> <<>>],
    [accountId |-> "a1", toAccountId |-> <<"a2">>, categoryId |-> <<>>,
     type |-> "TRANSFER", amount |-> 5, toAmount |-> <<>>, dateTime |-> <<DateJan31>>,
     title |-> <<>>, description |-> <<>>, recurringRuleId |-> <<>>],
    [accountId |-> "a1", toAccountId |-> <<"a2">>, categoryId |-> <<"c1">>,
     type |-> "TRANSFER", amount |-> 5, toAmount |-> <<7>>, dateTime |-> <<DateFeb29>>,
     title |-> <<Rent>>, description |-> <<>>, recurringRuleId |-> <<>>],
    [accountId |-> "a1", toAccountId |-> <<>>, categoryId |-> <<>>,
     type |-> "EXPENSE", amount |-> 5, toAmount |-> <<>>, dateTime |-> <<DateJan31>>,
     title |-> <<Rent>>, description |-> <<>>, recurringRuleId |-> <<"r1">>],
    [accountId |-> "a1", toAccountId |-> <<>>, categoryId |-> <<"c2">>,
     type |-> "INCOME", amount |-> 9, toAmount |-> <<>>, dateTime |-> <<DateFeb29>>,
     title |-> <<Food>>, description |-> <<>>, recurringRuleId |-> <<"r1">>],
    [accountId |-> "a1", toAccountId |-> <<>>, categoryId |-> <<"c1">>,
     type |-> "EXPENSE", amount |-> 5, toAmount |-> <<>>, dateTime |-> <<>>,
     title |-> <<Rent>>, description |-> <<>>, recurringRuleId |-> <<>>],
    [accountId |-> "a2", toAccountId |-> <<>>, categoryId |-> <<"c9">>,
     type |-> "SUBSCRIPTION", amount |-> 5, toAmount |-> <<>>,
     dateTime |-> <<DateJan31>>, title |-> <<>>, description |-> <<>>,
     recurringRuleId |-> <<"r9">>] }

RuleTemplates ==
  { [accountId |-> "a1", categoryId |-> <<"c1">>, amount |-> 5, title |-> <<Rent>>,
     type |-> "EXPENSE", startDate |-> <<DateJan31>>, intervalType |-> <<"MONTH">>,
     intervalN |-> <<1>>],
    [accountId |-> "a1", categoryId |-> <<>>, amount |-> 9, title |-> <<>>,
     type |-> "INCOME", startDate |-> <<>>, intervalType |-> <<>>,
     intervalN |-> <<>>],
    [accountId |-> "a2", categoryId |-> <<>>, amount |-> 9, title |-> <<>>,
     type |-> "INCOME", startDate |-> <<DateFeb29>>, intervalType |-> <<>>,
     intervalN |-> <<>>],
    [accountId |-> "a9", categoryId |-> <<"c1">>, amount |-> 5, title |-> <<Rent>>,
     type |-> "EXPENSE", startDate |-> <<DateJan31>>, intervalType |-> <<"YEAR">>,
     intervalN |-> <<1>>] }

\* The lists of at most max templates, the i-th entry getting the id prefix+i.
Lists(templates, max, prefix) ==
  UNION { { [i \in 1..n |-> [id |-> prefix[i]] @@ f[i]] : f \in [1..n -> templates] } :
          n \in 0..max }

AccountIds == <<"a1", "a2", "a3", "a4">>
CategoryIds == <<"c1", "c2", "c3", "c4">>
TxnIds == <<"t1", "t2", "t3", "t4">>
RuleIds == <<"r1", "r2", "r3", "r4">>

\* Rows of a target store: native rows with numeric keys, and rows a previous
\* migration left behind.
StaleKey == <<"9", "f", "-", "1">>
StalePredictKey == PredictPk(<<"9", "f", "-", "2">>, 1)

OldWallet(pk, name, order) ==
  [wallet_pk |-> pk, name |-> name, colour |-> intColorToHex(0),
   icon_name |-> "image.png", date_created |-> 1600000000, order |-> order,
   currency |-> EUR, decimals |-> 2]

OldCategory(pk, name, order) ==
  [category_pk |-> pk, name |-> name, colour |-> intColorToHex(0),
   icon_name |-> "image.png", emoji_icon_name |-> NULL,
   date_created |-> 1600000000, order |-> order, income |-> 0,
   method_added |-> NULL, main_category_pk |-> NULL]

OldTxn(pk, walletFk, categoryFk) ==
  TxnRow(pk, Rent, -3, <<>>, categoryFk, walletFk, 1600000000, 0, 1, 0, NULL,
         NULL, 1600000000, NULL, NULL, NULL)

OldTitle(pk, title, categoryFk, order) ==
  [associated_title_pk |-> pk, title |-> title, category_fk |-> categoryFk,
   date_created |-> 1600000000, order |-> order]

WalletTables ==
  { <<>>,
    <<OldWallet(<<"1">>, Cash, 0)>>,
    <<OldWallet(<<"1">>, Cash, 0), OldWallet(<<"2", "0">>, Cash, 2)>>,
    <<OldWallet(StaleKey, Bank, 0), OldWallet(<<"7">>, Bank, 1),
      OldWallet(<<"8">>, cash, 3)>> }

CategoryTables ==
  { <<>>,
    <<OldCategory(<<"1">>, DEFAULT_CATEGORY_NAME, 0)>>,
    <<OldCategory(<<"1">>, Food, 0), OldCategory(<<"0", "2">>, Food, 2),
      OldCategory(StaleKey, food, 1)>> }

TxnTables ==
  { <<>>,
    <<OldTxn(<<"1">>, <<"1">>, <<"1">>), OldTxn(StaleKey, <<"1">>, <<"1">>),
      OldTxn(StalePredictKey, <<"1">>, <<"1">>)>> }

TitleTables ==
  { <<>>,
    <<OldTitle(<<"1">>, Rent, <<"1">>, 0), OldTitle(StaleKey, Food, <<"1">>, 1)>> }

\* ------------------------------------------------------------------ state

VARIABLES
  db,             \* the target store: table name -> rows in rowid order
  data,           \* the source JSON handed to jsonToSqliteConvert
  pc,             \* the stage of jsonToSqliteConvert that completed last
  run,            \* number of runs started
  uuid,           \* number of identifiers generateUUID has minted, plus one
  clock,          \* currentTimestampSec() during the current run
  maps,           \* the identifier maps handed from stage to stage
  prev,           \* the store before the stage that completed last
  start,          \* the store when the current run was started
  failed,         \* the stages of the current run in which a statement failed
  colorInt,       \* argument of intColorToHex
  colorHex,       \* its result, <<>> before the call
  dateCall,       \* arguments of getNextDateForRecurringRule
  dateOut,        \* its result, <<>> before the call
  upload,         \* the last call of processJsonFile, and how many there were
  probe,          \* the call of _getNextAvailableOrder: its table, orderNum, position
  caught          \* what the catch block of jsonToSqliteConvert met, <<>> if it did not run

vars == <<db, data, pc, run, uuid, clock, maps, prev, start, failed,
          colorInt, colorHex, lookupMiss, dateCall, dateOut, upload, probe, caught>>

EmptyMaps ==
  [walletPkMap |-> EmptyMap, walletIdToName |-> EmptyMap,
   categoryPkMap |-> EmptyMap, defaultCategoryPk |-> <<>>, txnPkMap |-> EmptyMap,
   recurringRuleIdToTxnPk |-> EmptyMap, recurringRuleIdToCount |-> EmptyMap,
   recurringRuleIdToLatestTxnPk |-> EmptyMap,
   recurringRuleIdToLatestDate |-> EmptyMap, ruleKeys |-> <<>>]

Counts(d) == [t \in Tables |-> Len(d[t])]

NoUpload == [count |-> 0, file |-> <<>>, error |-> FALSE]

\* The catch block of jsonToSqliteConvert has not run.
NoCatch == <<>>

\* No call of _getNextAvailableOrder is under way.
NoProbe == [table |-> "wallets", orderNum |-> 0, at |-> "idle"]

NoDateCall == [startDateMs |-> <<0, 0>>, intervalType |-> "CUSTOM", intervalN |-> 1]

InitRun(source, target) ==
  /\ data = source
  /\ db = target
  /\ pc = "idle"
  /\ run = 0
  /\ uuid = 1
  /\ clock = 1700000000
  /\ maps = EmptyMaps
  /\ prev = target
  /\ start = target
  /\ failed = {}
  /\ lookupMiss \in LookupMisses
  /\ probe = NoProbe
  /\ caught = NoCatch
  /\ colorInt = 0
  /\ colorHex = <<>>
  /\ dateCall = NoDateCall
  /\ dateOut = <<>>
  /\ upload = NoUpload

\* Sources rich in transactions and rules, over two accounts.
TxnSources ==
  { [accounts |-> a, categories |-> c, transactions |-> t, plannedPaymentRules |-> r] :
      a \in {s \in Lists(AccountTemplates, 2, AccountIds) :
               Len(s) = 2 /\ s[1].name = Cash /\ s[2].name = Bank},
      c \in {s \in Lists(CategoryTemplates, 1, CategoryIds) :
               s = <<>> \/ s[1].name # food},
      t \in Lists(TxnTemplates, MaxTxns, TxnIds),
      r \in Lists(RuleTemplates, MaxRules, RuleIds) }

TxnTargets ==
  { [wallets |-> w, categories |-> c, transactions |-> t, associated_titles |-> a] :
      w \in {x \in WalletTables : Len(x) = 1},
      c \in {x \in CategoryTables : Len(x) = 3},
      t \in {x \in TxnTables : Len(x) = 3},
      a \in TitleTables }

Init == \E source \in TxnSources, target \in TxnTargets : InitRun(source, target)

\* Sources rich in accounts and categories, over native stores of every shape.
EntitySources ==
  { [accounts |-> a, categories |-> c, transactions |-> t, plannedPaymentRules |-> <<>>] :
      a \in Lists(AccountTemplates, MaxAccounts, AccountIds),
      c \in Lists(CategoryTemplates, MaxCategories, CategoryIds),
      t \in {s \in Lists(TxnTemplates, 1, TxnIds) :
               s = <<>> \/ (s[1].type = "INCOME" /\ s[1].categoryId = <<"c1">>)} }

EntityTargets ==
  { [wallets |-> w, categories |-> c, transactions |-> t, associated_titles |-> a] :
      w \in WalletTables, c \in CategoryTables,
      t \in {x \in TxnTables : Len(x) = 3}, a \in {x \in TitleTables : Len(x) = 2} }

InitEntities ==
  \E source \in EntitySources, target \in EntityTargets : InitRun(source, target)

\* Arguments of intColorToHex: the ends of the 32-bit range, the values around
\* the 24-bit boundaries, and the integers near zero.
ColorInputs ==
  (-ColorSpan..ColorSpan)
    \cup {-2147483647 - 1, -2147483647, 2147483647, -16777217, -16777216, -16777215,
          16777215, 16777216, 16777217, 65280, 255, -256, 10066329}

EmptySource ==
  [accounts |-> <<>>, categories |-> <<>>, transactions |-> <<>>,
   plannedPaymentRules |-> <<>>]

EmptyTarget == [t \in Tables |-> <<>>]

InitColor ==
  /\ data = EmptySource
  /\ db = EmptyTarget
  /\ pc = "idle"
  /\ run = 0
  /\ uuid = 1
  /\ clock = 1700000000
  /\ maps = EmptyMaps
  /\ prev = EmptyTarget
  /\ start = EmptyTarget
  /\ failed = {}
  /\ lookupMiss \in LookupMisses
  /\ probe = NoProbe
  /\ caught = NoCatch
  /\ colorInt \in ColorInputs
  /\ colorHex = <<>>
  /\ dateCall = NoDateCall
  /\ dateOut = <<>>
  /\ upload = NoUpload

\* ------------------------------------------------------------------ actions

\* jsonToSqliteConvert is called and purges the rows of earlier migrations.
ClearOldData ==
  /\ pc \in {"idle", "done"}
  /\ run < MaxRuns
  /\ run' = run + 1
  /\ clock' = clock + 1
  /\ start' = db
  /\ prev' = db
  /\ db' = clearOldData(db)
  /\ maps' = EmptyMaps
  /\ failed' = {}
  /\ caught' = NoCatch
  /\ pc' = "purged"
  /\ UNCHANGED <<data, uuid, colorInt, colorHex, lookupMiss, probe, dateCall, dateOut, upload>>

ProcessWallets ==
  /\ pc = "purged"
  /\ LET r == processWallets(db.wallets, data, uuid, clock)
     IN  /\ db' = [db EXCEPT !.wallets = r.rows]
         /\ maps' = [maps EXCEPT !.walletPkMap = r.walletPkMap,
                                 !.walletIdToName = r.walletIdToName]
         /\ uuid' = r.uuid
  /\ prev' = db
  /\ pc' = "wallets"
  /\ UNCHANGED <<data, run, clock, start, failed, colorInt, colorHex, lookupMiss, probe, caught, dateCall, dateOut, upload>>

ProcessCategories ==
  /\ pc = "wallets"
  /\ LET r == processCategories(db.categories, data, uuid, clock)
     IN  /\ db' = [db EXCEPT !.categories = r.rows]
         /\ maps' = [maps EXCEPT !.categoryPkMap = r.categoryPkMap,
                                 !.defaultCategoryPk = r.defaultCategoryPk]
         /\ uuid' = r.uuid
  /\ prev' = db
  /\ pc' = "categories"
  /\ UNCHANGED <<data, run, clock, start, failed, colorInt, colorHex, lookupMiss, probe, caught, dateCall, dateOut, upload>>

ProcessTransactions ==
  /\ pc = "categories"
  /\ LET r == processTransactions(db.transactions, data, maps, uuid, clock)
     IN  /\ db' = [db EXCEPT !.transactions = r.rows]
         /\ maps' = [maps EXCEPT
                       !.txnPkMap = r.txnPkMap,
                       !.recurringRuleIdToTxnPk = r.recurringRuleIdToTxnPk,
                       !.recurringRuleIdToCount = r.recurringRuleIdToCount,
                       !.recurringRuleIdToLatestTxnPk = r.recurringRuleIdToLatestTxnPk,
                       !.recurringRuleIdToLatestDate = r.recurringRuleIdToLatestDate,
                       !.ruleKeys = r.ruleKeys]
         /\ uuid' = r.uuid
  /\ prev' = db
  /\ pc' = "transactions"
  /\ UNCHANGED <<data, run, clock, start, failed, colorInt, colorHex, lookupMiss, probe, caught, dateCall, dateOut, upload>>

UpdateRecurringTransactionPks ==
  /\ pc = "transactions"
  /\ db' = [db EXCEPT !.transactions =
              updateRecurringTransactionPks(db.transactions, maps.ruleKeys,
                                            maps.recurringRuleIdToLatestTxnPk)]
  /\ prev' = db
  /\ pc' = "finalized"
  /\ UNCHANGED <<data, run, uuid, clock, maps, start, failed, colorInt, colorHex, lookupMiss, probe, caught, dateCall, dateOut, upload>>

ProcessPlannedPayments ==
  /\ pc = "finalized"
  /\ LET r == processPlannedPayments(db.transactions, data, maps, uuid, clock)
     IN  /\ db' = [db EXCEPT !.transactions = r.rows]
         /\ uuid' = r.uuid
  /\ prev' = db
  /\ pc' = "planned"
  /\ UNCHANGED <<data, run, clock, maps, start, failed, colorInt, colorHex, lookupMiss, probe, caught, dateCall, dateOut, upload>>

ProcessAssociatedTitles ==
  /\ pc = "planned"
  /\ LET r == processAssociatedTitles(db.associated_titles, data, maps, uuid, clock)
     IN  /\ db' = [db EXCEPT !.associated_titles = r.rows]
         /\ uuid' = r.uuid
  /\ prev' = db
  /\ pc' = "done"
  /\ UNCHANGED <<data, run, clock, maps, start, failed, colorInt, colorHex, lookupMiss, probe, caught, dateCall, dateOut, upload>>

Next ==
  \/ ClearOldData
  \/ ProcessWallets
  \/ ProcessCategories
  \/ ProcessTransactions
  \/ UpdateRecurringTransactionPks
  \/ ProcessPlannedPayments
  \/ ProcessAssociatedTitles

Spec == Init /\ [][Next]_vars

SpecEntities == InitEntities /\ [][Next]_vars

\* intColorToHex is called on colorInt.
ConvertColor ==
  /\ colorHex = <<>>
  /\ colorHex' = intColorToHex(colorInt)
  /\ UNCHANGED <<db, data, pc, run, uuid, clock, maps, prev, start, failed, colorInt, lookupMiss, probe, caught, dateCall, dateOut, upload>>

NextColor == ConvertColor

SpecColor == InitColor /\ [][NextColor]_vars

\* Arguments of getNextDateForRecurringRule: the days from 25 December 2023
\* on, which pass the ends of January and of the leap February, and some ends
\* of other months; early and late in the day.
DateDays ==
  {DaysFromCivil(2023, 12, 25) + k : k \in 0..DateSpan}
    \cup {DaysFromCivil(2023, 1, 31), DaysFromCivil(2023, 2, 28), DaysFromCivil(2023, 3, 31),
          DaysFromCivil(2023, 8, 31), DaysFromCivil(2020, 2, 29)}

IntervalTypes == {"DAILY", "WEEKLY", "MONTH", "YEAR", "CUSTOM", "QUARTER"}

DateInputs ==
  { [startDateMs |-> <<d * 86400 + s, 250>>, intervalType |-> t, intervalN |-> n] :
      d \in DateDays, s \in {0, 86399}, t \in IntervalTypes, n \in 1..MaxIntervalN }

InitDate ==
  /\ data = EmptySource
  /\ db = EmptyTarget
  /\ pc = "idle"
  /\ run = 0
  /\ uuid = 1
  /\ clock = 1700000000
  /\ maps = EmptyMaps
  /\ prev = EmptyTarget
  /\ start = EmptyTarget
  /\ failed = {}
  /\ lookupMiss \in LookupMisses
  /\ probe = NoProbe
  /\ caught = NoCatch
  /\ colorInt = 0
  /\ colorHex = <<>>
  /\ dateCall \in DateInputs
  /\ dateOut = <<>>
  /\ upload = NoUpload

\* getNextDateForRecurringRule is called on dateCall.
AdvanceDate ==
  /\ dateOut = <<>>
  /\ dateOut' = <<getNextDateForRecurringRule(dateCall.startDateMs, dateCall.intervalType,
                                              dateCall.intervalN)>>
  /\ UNCHANGED <<db, data, pc, run, uuid, clock, maps, prev, start, failed, colorInt,
                 colorHex, lookupMiss, probe, caught, dateCall, upload>>

NextDate == AdvanceDate

SpecDate == InitDate /\ [][NextDate]_vars

\* ------------------------------------------------------------------ upload

RequiredKeys_NoRules == {"accounts", "transactions", "categories"}

\* The fields processJsonFile verifies.
RequiredKeys == {"accounts", "transactions", "categories", "plannedPaymentRules"}

\* !db.accounts || !db.transactions || !db.categories || !db.plannedPaymentRules
\* is false; a field that is there holds an array, which is truthy even if
\* empty.
HasRequiredFields(file) == RequiredKeys \subseteq DOMAIN file

\* The parsed files a user may drop: two exports, and each with any of the
\* four fields left out.
UploadSources ==
  {s \in TxnSources :
     /\ s.transactions # <<>>
     /\ \A i \in DOMAIN s.transactions :
          s.transactions[i].type = "INCOME" /\ s.transactions[i].categoryId = <<"c1">>
     /\ s.categories # <<>> /\ s.categories[1].name = Food
     /\ s.plannedPaymentRules = <<>>}

JsonFiles ==
  {[k \in keys |-> s[k]] : s \in UploadSources, keys \in SUBSET RequiredKeys}

\* The page before a JSON file was accepted: databaseJson is null and the
\* conversion is not offered.
InitUpload ==
  /\ data = NULL
  /\ db \in TxnTargets
  /\ pc = "nojson"
  /\ run = 0
  /\ uuid = 1
  /\ clock = 1700000000
  /\ maps = EmptyMaps
  /\ prev = db
  /\ start = db
  /\ failed = {}
  /\ lookupMiss \in LookupMisses
  /\ probe = NoProbe
  /\ caught = NoCatch
  /\ colorInt = 0
  /\ colorHex = <<>>
  /\ dateCall = NoDateCall
  /\ dateOut = <<>>
  /\ upload = NoUpload

\* A file is dropped on FileUploadJson: processJsonFile parses it, throws if
\* a required field is missing and hands it to Index's handleJsonLoad if not.
ProcessJsonFile ==
  /\ pc \in {"nojson", "idle"}
  /\ run = 0
  /\ upload.count < MaxUploads
  /\ \E file \in JsonFiles :
       IF HasRequiredFields(file)
       THEN /\ data' = file
            /\ pc' = "idle"
            /\ upload' = [count |-> upload.count + 1, file |-> file, error |-> FALSE]
       ELSE /\ upload' = [count |-> upload.count + 1, file |-> file, error |-> TRUE]
            /\ UNCHANGED <<data, pc>>
  /\ UNCHANGED <<db, run, uuid, clock, maps, prev, start, failed, colorInt, colorHex,
                 lookupMiss, probe, caught, dateCall, dateOut>>

NextUpload == Next \/ ProcessJsonFile

SpecUpload == InitUpload /\ [][NextUpload]_vars

\* ------------------------------------------------------------------ order probing

\* Tables handed to _getNextAvailableOrder: up to MaxOrderRows rows whose
\* order values lie in -1..OrderSpan, with gaps and repetitions.
OrderTables ==
  UNION { { [i \in 1..n |-> OldWallet(NumToStr(i), Cash, f[i])] :
              f \in [1..n -> (-1)..OrderSpan] } :
          n \in 0..MaxOrderRows }

InitOrder ==
  /\ data = EmptySource
  /\ \E rows \in OrderTables : db = [EmptyTarget EXCEPT !.wallets = rows]
  /\ pc = "idle"
  /\ run = 0
  /\ uuid = 1
  /\ clock = 1700000000
  /\ maps = EmptyMaps
  /\ prev = db
  /\ start = db
  /\ failed = {}
  /\ lookupMiss \in LookupMisses
  /\ probe = [table |-> "wallets", orderNum |-> 0, at |-> "probing"]
  /\ caught = NoCatch
  /\ colorInt = 0
  /\ colorHex = <<>>
  /\ dateCall = NoDateCall
  /\ dateOut = <<>>
  /\ upload = NoUpload

SelectByOrder_NoneBelowTwo(rows, orderNum) ==
  SelectSeq(rows, LAMBDA r : r.order = orderNum /\ orderNum >= 2)

\* SELECT * FROM table WHERE `order` = orderNum
SelectByOrder(rows, orderNum) == SelectSeq(rows, LAMBDA r : r.order = orderNum)

\* The query returns a row: the loop goes on with the next integer.
ProbeTaken ==
  /\ probe.at = "probing"
  /\ SelectByOrder(db[probe.table], probe.orderNum) # <<>>
  /\ probe' = [probe EXCEPT !.orderNum = probe.orderNum + 1]
  /\ UNCHANGED <<db, data, pc, run, uuid, clock, maps, prev, start, failed, colorInt,
                 colorHex, lookupMiss, dateCall, dateOut, upload, caught>>

\* The query returns no row: the loop is left and orderNum returned.
ProbeFree ==
  /\ probe.at = "probing"
  /\ SelectByOrder(db[probe.table], probe.orderNum) = <<>>
  /\ probe' = [probe EXCEPT !.at = "returned"]
  /\ UNCHANGED <<db, data, pc, run, uuid, clock, maps, prev, start, failed, colorInt,
                 colorHex, lookupMiss, dateCall, dateOut, upload, caught>>

NextOrder == ProbeTaken \/ ProbeFree

\* The loop is synchronous code: a pass that can be made is made.
SpecOrder == InitOrder /\ [][NextOrder]_vars /\ WF_vars(NextOrder)

\* ------------------------------------------------------------------ skipped transactions

\* Sources whose only account is a1: the transactions and rules of account a2,
\* and the transfers to it, name an account without a wallet.
SkipSources ==
  { [accounts |-> a, categories |-> c, transactions |-> t, plannedPaymentRules |-> r] :
      a \in {s \in Lists(AccountTemplates, 1, AccountIds) : Len(s) = 1 /\ s[1].name = Cash},
      c \in {s \in Lists(CategoryTemplates, 1, CategoryIds) :
               s = <<>> \/ s[1].name # food},
      t \in Lists(TxnTemplates, MaxTxns, TxnIds),
      r \in Lists(RuleTemplates, MaxRules, RuleIds) }

InitSkips == \E source \in SkipSources, target \in TxnTargets : InitRun(source, target)

SpecSkips == InitSkips /\ [][Next]_vars

\* ------------------------------------------------------------------ failing statements

\* The tables in the order _clearOldData visits them.
TableOrder == <<"wallets", "categories", "transactions", "associated_titles">>

\* The store after _clearOldData's DELETE failed on the k-th table: each DELETE
\* is its own implicit transaction, so the tables before it stay purged.
clearOldDataUpTo(d, k) ==
  [t \in Tables |->
     IF \E i \in 1..(k - 1) : TableOrder[i] = t THEN DeleteNonNumeric(t, d[t]) ELSE d[t]]

AbortsRun_PurgeSwallowed(stage) == stage \notin {"purge", "finalize", "titles"}

\* Whether an error raised by a statement of the stage leaves the stage's
\* function: all catch blocks re-throw, but those of
\* _updateRecurringTransactionPks and _processAssociatedTitles only log.
AbortsRun(stage) == stage \notin {"finalize", "titles"}

\* The position of jsonToSqliteConvert after a statement of the stage failed:
\* its catch block when the error reached it, the stage's end otherwise.
AfterFailure(stage, completed) == IF AbortsRun(stage) THEN "error" ELSE completed

\* The sequence without its k-th element.
Without(seq, k) == [i \in 1..(Len(seq) - 1) |-> IF i < k THEN seq[i] ELSE seq[i + 1]]

\* The error that leaves the catch block: db.exec('ROLLBACK;') comes before
\* `throw error`, and the engine refuses a ROLLBACK when no transaction is
\* open, so that its error is the one thrown.
Thrown(open) == IF open THEN "original" ELSE "rollback"

\* The catch block ran after a failure at the given place ("purge", "begin",
\* "commit", "statement", or "second insert" for the second INSERT of a
\* transfer), a transaction being open or not.
Caught(at, open) == <<[at |-> at, open |-> open, thrown |-> Thrown(open)]>>

\* The store after the catch block: a ROLLBACK returns it to the BEGIN
\* TRANSACTION of the stage, as does the engine when it has ended the
\* transaction on its own.
RolledBack_KeepsWork(before, work) == work

RolledBack(before, work) == before

\* The DELETE on the k-th table fails. No transaction is open, so the ROLLBACK
\* of jsonToSqliteConvert's catch block undoes nothing.
ClearOldDataFails ==
  /\ pc \in {"idle", "done"}
  /\ run < MaxRuns
  /\ \E k \in DOMAIN TableOrder : db' = clearOldDataUpTo(db, k)
  /\ run' = run + 1
  /\ clock' = clock + 1
  /\ start' = db
  /\ prev' = db
  /\ maps' = EmptyMaps
  /\ failed' = {"purge"}
  /\ caught' = IF AbortsRun("purge") THEN Caught("purge", FALSE) ELSE NoCatch
  /\ pc' = AfterFailure("purge", "purged")
  /\ UNCHANGED <<data, uuid, colorInt, colorHex, lookupMiss, probe, dateCall, dateOut, upload>>

\* A statement of a stage that re-throws fails, the stage having brought the
\* table to work: the catch block runs. The engine keeps the transaction open
\* after most errors and ends it on its own after some (out of memory, a full
\* store).
StageFails(before, stage, completed, table, work, at) ==
  /\ pc = before
  /\ db' = [db EXCEPT ![table] = RolledBack(db[table], work)]
  /\ prev' = db
  /\ failed' = failed \cup {stage}
  /\ \E open \in BOOLEAN : caught' = Caught(at, open)
  /\ pc' = AfterFailure(stage, completed)
  /\ UNCHANGED <<data, run, uuid, clock, maps, start, colorInt, colorHex, lookupMiss, probe, dateCall, dateOut, upload>>

\* _processWallets always queries the table, in _getNextAvailableOrder.
ProcessWalletsFails ==
  /\ pc = "purged"
  /\ StageFails("purged", "wallets", "wallets", "wallets", db.wallets, "statement")

\* _processCategories does too.
ProcessCategoriesFails ==
  /\ pc = "wallets"
  /\ StageFails("wallets", "categories", "categories", "categories", db.categories, "statement")

\* The rows of transactions when the INSERT for the k-th source transaction
\* fails: those of the transactions before it and, when it is a transfer whose
\* second INSERT fails, its income row.
RowsAtFailure(k, second) ==
  LET before == processTransactions(
                  db.transactions,
                  [data EXCEPT !.transactions = SubSeq(data.transactions, 1, k - 1)],
                  maps, uuid, clock)
      after == TxnStep(before, data.transactions[k], maps, data, clock)
  IN  IF second THEN SubSeq(after.rows, 1, Len(before.rows) + 1) ELSE before.rows

\* _processTransactions issues a statement only for a transaction it inserts;
\* a transfer has two.
ProcessTransactionsFails ==
  /\ pc = "categories"
  /\ \E k \in DOMAIN data.transactions, second \in BOOLEAN :
       /\ Len(RowsAtFailure(k + 1, FALSE)) - Len(RowsAtFailure(k, FALSE))
            > (IF second THEN 1 ELSE 0)
       /\ StageFails("categories", "transactions", "transactions", "transactions",
                     RowsAtFailure(k, second),
                     IF second THEN "second insert" ELSE "statement")

\* _processPlannedPayments issues a statement only for a rule it inserts.
ProcessPlannedPaymentsFails ==
  /\ pc = "finalized"
  /\ \E i \in DOMAIN data.plannedPaymentRules :
       RuleReachesInsert(data.plannedPaymentRules[i], maps)
  /\ StageFails("finalized", "planned", "planned", "transactions", db.transactions, "statement")

\* The UPDATE for the k-th rule fails; the error is logged, the loop goes on
\* with the next rule and the stage's transaction is committed.
UpdateRecurringTransactionPksFails ==
  /\ pc = "transactions"
  /\ \E k \in DOMAIN maps.ruleKeys :
       db' = [db EXCEPT !.transactions =
                updateRecurringTransactionPks(db.transactions, Without(maps.ruleKeys, k),
                                              maps.recurringRuleIdToLatestTxnPk)]
  /\ prev' = db
  /\ failed' = failed \cup {"finalize"}
  /\ pc' = AfterFailure("finalize", "finalized")
  /\ UNCHANGED <<data, run, uuid, clock, maps, start, colorInt, colorHex, lookupMiss, probe, caught, dateCall, dateOut, upload>>

\* The lookup or the INSERT for the k-th transaction's title fails; the error
\* is logged before the title is marked as seen, the loop goes on with the
\* next transaction and the stage's transaction is committed.
ProcessAssociatedTitlesFails ==
  /\ pc = "planned"
  /\ \E k \in DOMAIN data.transactions :
       /\ TitleStep([rows |-> <<>>, uuid |-> uuid, seen |-> {}, orderCounter |-> 0],
                    data.transactions[k], maps, clock).seen # {}
       /\ LET r == processAssociatedTitles(
                     db.associated_titles,
                     [data EXCEPT !.transactions = Without(data.transactions, k)],
                     maps, uuid, clock)
          IN  /\ db' = [db EXCEPT !.associated_titles = r.rows]
              /\ uuid' = r.uuid
  /\ prev' = db
  /\ failed' = failed \cup {"titles"}
  /\ pc' = AfterFailure("titles", "done")
  /\ UNCHANGED <<data, run, clock, maps, start, colorInt, colorHex, lookupMiss, probe, caught, dateCall, dateOut, upload>>

\* The positions at which a stage's BEGIN TRANSACTION is issued.
BeforeStage == {"purged", "wallets", "categories", "transactions", "finalized", "planned"}

\* A BEGIN TRANSACTION fails: no transaction is open when the catch block
\* runs.
BeginFails ==
  /\ pc \in BeforeStage
  /\ db' = db
  /\ prev' = db
  /\ caught' = Caught("begin", FALSE)
  /\ pc' = "error"
  /\ UNCHANGED <<data, run, uuid, clock, maps, start, failed, colorInt, colorHex, lookupMiss, probe, dateCall, dateOut, upload>>

\* The COMMIT of a stage fails after the stage ran: the engine keeps the
\* transaction open or ends it on its own, and either way the stage's writes
\* are undone.
CommitFails ==
  /\ pc \in BeforeStage
  /\ db' = db
  /\ prev' = db
  /\ \E open \in BOOLEAN : caught' = Caught("commit", open)
  /\ pc' = "error"
  /\ UNCHANGED <<data, run, uuid, clock, maps, start, failed, colorInt, colorHex, lookupMiss, probe, dateCall, dateOut, upload>>

NextFaults ==
  \/ Next
  \/ BeginFails
  \/ CommitFails
  \/ ClearOldDataFails
  \/ ProcessWalletsFails
  \/ ProcessCategoriesFails
  \/ ProcessTransactionsFails
  \/ UpdateRecurringTransactionPksFails
  \/ ProcessPlannedPaymentsFails
  \/ ProcessAssociatedTitlesFails

SpecFaults == Init /\ [][NextFaults]_vars

\* ------------------------------------------------------------------ claims

\* The six lower-case hex digits of the low 24 bits of the two's-complement
\* value of c; 2^32 is a multiple of 2^24, so adding it changes none of them.
Low24Hex(c) ==
  LET v == c % 16777216
  IN  << HexDigits[((v \div 1048576) % 16) + 1], HexDigits[((v \div 65536) % 16) + 1],
         HexDigits[((v \div 4096) % 16) + 1], HexDigits[((v \div 256) % 16) + 1],
         HexDigits[((v \div 16) % 16) + 1], HexDigits[(v % 16) + 1] >>

\* C4: for every 32-bit signed integer c, intColorToHex(c) is '0xff' followed by
\* the six hex digits of the low 24 bits of c's two's-complement value.
C4_ColorIsLow24Bits ==
  colorHex # <<>> => colorHex = <<"0", "x", "f", "f">> \o Low24Hex(colorInt)

Pks(table) == {PkOf(table, db[table][i]) : i \in DOMAIN db[table]}

\* The rows of a table of the store that hold a given key.
RowsWithPk(table, pk) == {i \in DOMAIN db[table] : PkOf(table, db[table][i]) = pk}

\* C1: after a run that completed every stage, every row of transactions has a
\* wallet_fk that is the key of a row of wallets and a category_fk that is the
\* key of a row of categories.
C1_ForeignKeysResolve ==
  pc = "done" =>
    \A i \in DOMAIN db.transactions :
      /\ db.transactions[i].wallet_fk \in Pks("wallets")
      /\ db.transactions[i].category_fk \in Pks("categories")

\* The key begins with the canonical identifier followed by the series marker.
IsPlaceholderOf(pk, canonical) ==
  /\ Len(pk) > Len(canonical) + Len(PredictMarker)
  /\ SubSeq(pk, 1, Len(canonical) + Len(PredictMarker)) = canonical \o PredictMarker

PlaceholderRows(canonical) ==
  {i \in DOMAIN db.transactions :
     IsPlaceholderOf(db.transactions[i].transaction_pk, canonical)}

\* C2 as stated: after a run completes, for every rule at most one row of
\* transactions has a key made of the rule's canonical identifier and the
\* series marker.
C2_AtMostOnePlaceholder ==
  pc = "done" =>
    \A r \in DOMAIN maps.recurringRuleIdToTxnPk :
      Cardinality(PlaceholderRows(maps.recurringRuleIdToTxnPk[r])) <= 1

\* C2 amended: after a run completes, for a rule with k historical
\* transactions the rows keyed canonical::predict::n are one for each n in
\* 1..k-1 (the occurrences before the last), plus at most one row keyed
\* canonical::predict::(k+1), the unpaid projected row; occurrence k holds the
\* canonical identifier itself.
C2_PlaceholdersPerRule ==
  pc = "done" =>
    \A r \in DOMAIN maps.recurringRuleIdToTxnPk :
      LET canonical == maps.recurringRuleIdToTxnPk[r]
          k == maps.recurringRuleIdToCount[r]
          rows == PlaceholderRows(canonical)
      IN  /\ \A n \in 1..(k - 1) :
               Cardinality(RowsWithPk("transactions", PredictPk(canonical, n))) = 1
          /\ Cardinality(RowsWithPk("transactions", PredictPk(canonical, k + 1))) <= 1
          /\ Cardinality(RowsWithPk("transactions", canonical)) = 1
          /\ \A i \in rows :
               \/ /\ db.transactions[i].transaction_pk = PredictPk(canonical, k + 1)
                  /\ db.transactions[i].paid = 0
               \/ /\ \E n \in 1..(k - 1) :
                       db.transactions[i].transaction_pk = PredictPk(canonical, n)
                  /\ db.transactions[i].paid = 1

\* A run completed in which a rule with two historical transactions was also
\* projected.
C2_Witness ==
  /\ pc = "done"
  /\ \E r \in DOMAIN maps.recurringRuleIdToTxnPk :
       /\ maps.recurringRuleIdToCount[r] >= 2
       /\ RowsWithPk("transactions",
                     PredictPk(maps.recurringRuleIdToTxnPk[r],
                               maps.recurringRuleIdToCount[r] + 1)) # {}

\* A source transfer the Transaction stage does not skip.
IsMappedTransfer(txn) ==
  /\ txn.type = "TRANSFER"
  /\ txn.dateTime # <<>>
  /\ txn.accountId \in DOMAIN maps.walletPkMap
  /\ txn.toAccountId # <<>>
  /\ txn.toAccountId[1] \in DOMAIN maps.walletPkMap

AfterTransactions == pc \in {"transactions", "finalized", "planned", "done"}

\* The transfer has exactly two rows: an income row of the given amount on the
\* wallet of the destination account, and an expense row of amount -A on the
\* wallet of the account, paired with the income row.
TransferPair(txn, incomeAmount) ==
  /\ txn.id \in DOMAIN maps.txnPkMap
  /\ Len(maps.txnPkMap[txn.id]) = 2
  /\ LET incomePk == maps.txnPkMap[txn.id][1]
         expensePk == maps.txnPkMap[txn.id][2]
     IN  /\ incomePk # expensePk
         /\ Cardinality(RowsWithPk("transactions", incomePk)) = 1
         /\ Cardinality(RowsWithPk("transactions", expensePk)) = 1
         /\ \A i \in RowsWithPk("transactions", incomePk) :
              /\ db.transactions[i].income = 1
              /\ db.transactions[i].amount = incomeAmount
              /\ db.transactions[i].wallet_fk = maps.walletPkMap[txn.toAccountId[1]]
         /\ \A i \in RowsWithPk("transactions", expensePk) :
              /\ db.transactions[i].income = 0
              /\ db.transactions[i].amount = 0 - txn.amount
              /\ db.transactions[i].wallet_fk = maps.walletPkMap[txn.accountId]
              /\ db.transactions[i].paired_transaction_fk = incomePk

\* C3 as stated: every mapped, dated source TRANSFER of amount A yields an
\* income row of amount A on the wallet of Y and an expense row of amount -A on
\* the wallet of X paired with it, whatever toAmount is.
C3_TransferPairOfAmountA ==
  AfterTransactions =>
    \A i \in DOMAIN data.transactions :
      IsMappedTransfer(data.transactions[i]) =>
        TransferPair(data.transactions[i], data.transactions[i].amount)

\* C3 amended: the income row carries toAmount when the source transfer has
\* one, and A otherwise; the rest as stated.
C3_TransferPairOfToAmount ==
  AfterTransactions =>
    \A i \in DOMAIN data.transactions :
      IsMappedTransfer(data.transactions[i]) =>
        TransferPair(data.transactions[i],
                     IF data.transactions[i].toAmount # <<>>
                     THEN data.transactions[i].toAmount[1]
                     ELSE data.transactions[i].amount)

\* The Transaction stage has inserted the rows of a transfer whose toAmount
\* differs from its amount.
C3_Witness ==
  /\ pc = "transactions"
  /\ \E i \in DOMAIN data.transactions :
       /\ IsMappedTransfer(data.transactions[i])
       /\ data.transactions[i].toAmount # <<>>
       /\ data.transactions[i].toAmount[1] # data.transactions[i].amount
       /\ data.transactions[i].id \in DOMAIN maps.txnPkMap
       /\ RowsWithPk("transactions", maps.txnPkMap[data.transactions[i].id][2]) # {}

NoTwoShareAName(rows) ==
  \A i, j \in DOMAIN rows : i # j => rows[i].name # rows[j].name

\* C5: if no two wallets and no two categories share a name when a run starts,
\* none do after its Wallet and Category stages.
C5_NamesStayUnique ==
  (pc = "categories" /\ NoTwoShareAName(start.wallets)
                     /\ NoTwoShareAName(start.categories))
    => (NoTwoShareAName(db.wallets) /\ NoTwoShareAName(db.categories))

\* The rows a stage inserted: those behind the rows the table held before it.
InsertedRows(table) == (Len(prev[table]) + 1)..Len(db[table])

\* The source entity is mapped to a row the table held before the stage whose
\* name equals its name ignoring letter case, and no row was inserted for it.
ReusedIgnoringCase(table, entity, pkMap) ==
  LET matches == {i \in DOMAIN prev[table] :
                    ToLowerCase(prev[table][i].name) = ToLowerCase(entity.name)}
  IN  matches # {} =>
        /\ entity.id \in DOMAIN pkMap
        /\ pkMap[entity.id] \in {PkOf(table, prev[table][i]) : i \in matches}
        /\ \A j \in InsertedRows(table) : db[table][j].name # entity.name

\* C6: a source account or category whose name equals, ignoring letter case, the
\* name of a row already in the table is mapped to that row's key, and no row
\* is inserted for it.
C6_ReuseIgnoringCase ==
  /\ pc = "wallets" =>
       \A i \in DOMAIN data.accounts :
         ReusedIgnoringCase("wallets", data.accounts[i], maps.walletPkMap)
  /\ pc = "categories" =>
       \A i \in DOMAIN data.categories :
         ReusedIgnoringCase("categories", data.categories[i], maps.categoryPkMap)

\* The rows the lookups by name return: for each source name, the first row of
\* the table, as it was before the stage, that bears it.
MatchedRows(table, entities) ==
  {i \in DOMAIN prev[table] :
     /\ \E e \in DOMAIN entities : entities[e].name = prev[table][i].name
     /\ \A j \in 1..(i - 1) : prev[table][j].name # prev[table][i].name}

\* C7 as stated: of the rows the table held before the stage, a matched row
\* changes in currency (wallets) or colour (categories) only, and no other row
\* changes at all.
C7_OnlyTheMatchedRowChanges ==
  /\ pc = "wallets" =>
       \A i \in DOMAIN prev.wallets :
         IF i \in MatchedRows("wallets", data.accounts)
         THEN [db.wallets[i] EXCEPT !.currency = prev.wallets[i].currency]
                = prev.wallets[i]
         ELSE db.wallets[i] = prev.wallets[i]
  /\ pc = "categories" =>
       \A i \in DOMAIN prev.categories :
         IF i \in MatchedRows("categories", data.categories)
         THEN [db.categories[i] EXCEPT !.colour = prev.categories[i].colour]
                = prev.categories[i]
         ELSE db.categories[i] = prev.categories[i]

\* C7 amended: the stage changes, of the rows the table held, only the currency
\* (wallets) or colour (categories) of the rows that bear the name of a source
\* account or category -- every row with that name, not the matched one alone;
\* all other columns and all rows with other names are unchanged.
C7_OnlyNamedRowsChange ==
  /\ pc = "wallets" =>
       \A i \in DOMAIN prev.wallets :
         IF \E a \in DOMAIN data.accounts : data.accounts[a].name = prev.wallets[i].name
         THEN [db.wallets[i] EXCEPT !.currency = prev.wallets[i].currency]
                = prev.wallets[i]
         ELSE db.wallets[i] = prev.wallets[i]
  /\ pc = "categories" =>
       \A i \in DOMAIN prev.categories :
         IF \E c \in DOMAIN data.categories :
              data.categories[c].name = prev.categories[i].name
         THEN [db.categories[i] EXCEPT !.colour = prev.categories[i].colour]
                = prev.categories[i]
         ELSE db.categories[i] = prev.categories[i]

\* The Wallet stage has matched an account to a native wallet and changed its
\* currency, leaving a wallet of another name in the table.
C7_Witness ==
  /\ pc = "wallets"
  /\ \E i, j \in DOMAIN prev.wallets :
       /\ db.wallets[i].currency # prev.wallets[i].currency
       /\ prev.wallets[j].name # prev.wallets[i].name

\* The lowest non-negative integer that is the order of no row.
LowestUnusedOrder(rows) ==
  LET used == {rows[i].order : i \in DOMAIN rows}
  IN  CHOOSE n \in 0..Len(rows) : n \notin used /\ \A m \in 0..(n - 1) : m \in used

\* The orders of the rows the stage inserted are distinct and fill the range
\* that starts at the lowest order unused before the stage.
InsertedOrdersContiguous(table) ==
  LET first == LowestUnusedOrder(prev[table])
      n == Len(db[table]) - Len(prev[table])
  IN  /\ {db[table][j].order : j \in InsertedRows(table)} = first..(first + n - 1)
      /\ \A j, k \in InsertedRows(table) :
           j # k => db[table][j].order # db[table][k].order

AllDigits(pk) == \A i \in DOMAIN pk : pk[i] \in {"0", "1", "2", "3", "4", "5", "6", "7", "8", "9"}

\* C9: the purge removes from each of the four tables exactly the rows whose
\* key holds a character that is no digit; the rows with all-digit keys stay,
\* unchanged and in place.
C9_PurgeRemovesNonNumericOnly ==
  pc = "purged" =>
    \A t \in Tables :
      LET kept == {i \in DOMAIN prev[t] : AllDigits(PkOf(t, prev[t][i]))}
      IN  /\ Len(db[t]) = Cardinality(kept)
          /\ \A i \in DOMAIN db[t] : AllDigits(PkOf(t, db[t][i]))
          /\ \A i \in kept :
               db[t][Cardinality({j \in kept : j <= i})] = prev[t][i]

\* The purge acted on a table that held a key of digits and letters, which
\* went, and an all-digit key, which stayed.
C9_Witness ==
  /\ pc = "purged"
  /\ \E t \in Tables :
       /\ \E i \in DOMAIN prev[t] :
            /\ ~AllDigits(PkOf(t, prev[t][i]))
            /\ IsDigit(PkOf(t, prev[t][i])[1])
       /\ db[t] # <<>>
       /\ Len(db[t]) < Len(prev[t])

\* C10: a run repeated with the same source on the store the previous run left
\* ends with the row counts, per table, that the previous run ended with.
C10_SecondRunKeepsCounts ==
  (pc = "done" /\ run >= 2) => Counts(db) = Counts(start)

\* A second run completed that purged and re-inserted rows of every table.
C10_Witness ==
  /\ pc = "done"
  /\ run = 2
  /\ \A t \in Tables : \E i \in DOMAIN db[t] : ~AllDigits(PkOf(t, db[t][i]))

\* The stages that jsonToSqliteConvert wraps in BEGIN TRANSACTION and COMMIT.
WrappedStages == {"wallets", "categories", "transactions", "finalize", "planned", "titles"}

\* C11: when a statement fails in one of the stages Wallets, Categories,
\* Transactions, PK-Finalize, Planned-Payments or Associated-Titles, the run ends
\* in error with no later stage executed, and the store is the one the stages
\* committed before had left: the failing stage's writes are gone, theirs stay.
C11_FailureAbortsAndRollsBack ==
  (failed \cap WrappedStages # {}) => (pc = "error" /\ db = prev)

\* Every row of the store is a row the store held, as it was, when the run began.
NothingInsertedOrUpdated ==
  \A t \in Tables : \A i \in DOMAIN db[t] : \E j \in DOMAIN start[t] : db[t][i] = start[t][j]

\* C12: when the purge's DELETE fails on one of the four tables, the run ends
\* in error and the run has inserted or updated no row of any table.
C12_PurgeFailureWritesNothing ==
  ("purge" \in failed) => (pc = "error" /\ NothingInsertedOrUpdated)

\* The DELETE failed after the purge had already removed rows of an earlier
\* table and while rows of an earlier migration were still to be removed.
C12_Witness ==
  /\ "purge" \in failed
  /\ db # start
  /\ db # clearOldData(start)

\* C13: each of the seven stages is atomic: after a statement failed in a
\* stage, the Purge included, the store holds either all of that stage's writes
\* or none of them.
C13_StagesAreAllOrNothing ==
  /\ ("purge" \in failed) => db \in {start, clearOldData(start)}
  /\ (pc = "error" /\ failed \cap WrappedStages # {}) => db = prev
  /\ (pc = "finalized" /\ "finalize" \in failed) =>
       db.transactions \in
         {prev.transactions,
          updateRecurringTransactionPks(prev.transactions, maps.ruleKeys,
                                        maps.recurringRuleIdToLatestTxnPk)}
  /\ (pc = "done" /\ "titles" \in failed) =>
       Len(db.associated_titles) \in
         {Len(prev.associated_titles),
          Len(processAssociatedTitles(prev.associated_titles, data, maps, 1, clock).rows)}

\* The source transactions the Transaction stage inserted as occurrences of the
\* rule: linked to it, no transfers, with a mapped account and a timestamp.
Occurrences(rule) ==
  {i \in DOMAIN data.transactions :
     LET txn == data.transactions[i]
     IN  /\ txn.recurringRuleId = <<rule.id>>
         /\ txn.type # "TRANSFER"
         /\ txn.accountId \in DOMAIN maps.walletPkMap
         /\ txn.dateTime # <<>>}

\* The row the Planned-Payment stage inserted for the i-th rule.
ProjectedRow(i) ==
  db.transactions[Len(prev.transactions)
                    + Cardinality({j \in 1..i :
                                     RuleReachesInsert(data.plannedPaymentRules[j], maps)})]

Latest(indices) == CHOOSE i \in indices : \A j \in indices : j <= i

\* C14: the projected row of a rule with processed occurrences is dated one
\* interval after the last of them; that of a rule without any is dated
\* floor(startDate / 1000).
C14_ProjectedDateFollowsLastOccurrence ==
  pc = "planned" =>
    \A i \in DOMAIN data.plannedPaymentRules :
      LET rule == data.plannedPaymentRules[i]
          last == data.transactions[Latest(Occurrences(rule))]
      IN  RuleReachesInsert(rule, maps) =>
            ProjectedRow(i).date_created =
              IF Occurrences(rule) = {}
              THEN FloorSec(rule.startDate[1])
              ELSE getNextDateForRecurringRule(
                     ToMs(FloorSec(last.dateTime[1])),
                     OrElse(rule.intervalType, "CUSTOM"), OrElse(rule.intervalN, 1))

\* The rules the claim says yield a row: start date present, account mapped.
EligibleRules ==
  {i \in DOMAIN data.plannedPaymentRules :
     /\ data.plannedPaymentRules[i].startDate # <<>>
     /\ data.plannedPaymentRules[i].accountId \in DOMAIN maps.walletPkMap}

IsLeapYear(y) == (y % 4 = 0 /\ y % 100 # 0) \/ y % 400 = 0

DaysInMonth(y, m) ==
  IF m = 2 THEN (IF IsLeapYear(y) THEN 29 ELSE 28)
  ELSE IF m \in {4, 6, 9, 11} THEN 30 ELSE 31

Min(a, b) == IF a <= b THEN a ELSE b

\* Midnight of a calendar day, in seconds and in milliseconds.
Midnight(y, m, d) == DaysFromCivil(y, m, d) * 86400
MidnightMs(y, m, d) == <<Midnight(y, m, d), 0>>

\* The same time of day n calendar months later, on the day of the month of
\* the start or, when the month is too short for it, on the month's last day.
MonthsLater(ms, n) ==
  LET c == CivilFromDays(ms[1] \div 86400)
      total == c.year * 12 + (c.month - 1) + n
      y == total \div 12
      m == (total % 12) + 1
  IN  DaysFromCivil(y, m, Min(c.day, DaysInMonth(y, m))) * 86400 + (ms[1] % 86400)

\* The same time of day n years later, 29 February becoming 28 February in a
\* year that is no leap year.
YearsLater(ms, n) ==
  LET c == CivilFromDays(ms[1] \div 86400)
  IN  DaysFromCivil(c.year + n, c.month, Min(c.day, DaysInMonth(c.year + n, c.month)))
        * 86400 + (ms[1] % 86400)

\* C16: getNextDateForRecurringRule with MONTH and N gives the date N calendar
\* months later, its day of the month capped by the target month's length
\* (31 Jan 2024 + 1 = 29 Feb 2024, 31 Jan 2023 + 1 = 28 Feb 2023); with YEAR,
\* 29 February goes to 28 February of a non-leap year; with CUSTOM or an unknown
\* interval the date is unchanged.
C16_NextDateClampsToMonthEnd ==
  /\ getNextDateForRecurringRule(MidnightMs(2024, 1, 31), "MONTH", 1) = Midnight(2024, 2, 29)
  /\ getNextDateForRecurringRule(MidnightMs(2023, 1, 31), "MONTH", 1) = Midnight(2023, 2, 28)
  /\ getNextDateForRecurringRule(MidnightMs(2024, 2, 29), "YEAR", 1) = Midnight(2025, 2, 28)
  /\ dateOut # <<>> =>
       CASE dateCall.intervalType = "MONTH" ->
              dateOut[1] = MonthsLater(dateCall.startDateMs, dateCall.intervalN)
         [] dateCall.intervalType = "YEAR" ->
              dateOut[1] = YearsLater(dateCall.startDateMs, dateCall.intervalN)
         [] dateCall.intervalType \in {"CUSTOM", "QUARTER"} ->
              dateOut[1] = FloorSec(dateCall.startDateMs)
         [] OTHER -> TRUE

\* 31 January 2024 was advanced by one month, to a day in February.
C16_Witness ==
  /\ dateOut # <<>>
  /\ dateCall.intervalType = "MONTH"
  /\ dateCall.intervalN = 1
  /\ dateCall.startDateMs[1] \div 86400 = DaysFromCivil(2024, 1, 31)
  /\ CivilFromDays(dateOut[1] \div 86400).month = 2

\* A source transaction with a timestamp whose accounts are mapped.
HasWalletAndTime(txn) ==
  /\ txn.dateTime # <<>>
  /\ txn.accountId \in DOMAIN maps.walletPkMap
  /\ txn.type = "TRANSFER" => IsMappedTransfer(txn)

\* Its categoryId is missing or names no source category.
HasNoSourceCategory(txn) ==
  \/ txn.categoryId = <<>>
  \/ \A c \in DOMAIN data.categories : data.categories[c].id # txn.categoryId[1]

\* The number of rows a source transaction is to yield: two for a transfer.
RowsDue(txn) ==
  IF ~HasWalletAndTime(txn) THEN 0 ELSE IF txn.type = "TRANSFER" THEN 2 ELSE 1

RECURSIVE RowsDueBefore(_)
RowsDueBefore(i) ==
  IF i = 1 THEN 0 ELSE RowsDueBefore(i - 1) + RowsDue(data.transactions[i - 1])

\* The keys of the categories rows named 'Uncategorized'.
UncategorizedPks ==
  {db.categories[c].category_pk :
     c \in {k \in DOMAIN db.categories : db.categories[k].name = DEFAULT_CATEGORY_NAME}}

\* C17: a source transaction with a mapped wallet and a timestamp whose
\* categoryId is missing or unknown is inserted, and its category_fk is the key
\* of a categories row named 'Uncategorized'.
C17_FallbackToUncategorizedRow ==
  pc = "transactions" =>
    /\ Len(db.transactions)
         = Len(prev.transactions) + RowsDueBefore(Len(data.transactions) + 1)
    /\ \A i \in DOMAIN data.transactions :
         LET txn == data.transactions[i]
             first == Len(prev.transactions) + RowsDueBefore(i) + 1
         IN  (HasWalletAndTime(txn) /\ HasNoSourceCategory(txn)) =>
               \A k \in first..(first + RowsDue(txn) - 1) :
                 /\ db.transactions[k].name = OrElse(txn.title, DEFAULT_TITLE)
                 /\ db.transactions[k].category_fk \in UncategorizedPks

\* The number of associated_titles rows with the title and the category.
TitleCount(rows, categoryPk, title) ==
  Cardinality({i \in DOMAIN rows :
                 rows[i].title = title /\ rows[i].category_fk = categoryPk})

\* The source transactions the Associated-Titles stage looks at, and the
\* target category each resolves to.
TitledTxns ==
  {i \in DOMAIN data.transactions :
     /\ data.transactions[i].categoryId # <<>>
     /\ data.transactions[i].title # <<>>
     /\ data.transactions[i].title # <<<<>>>>}

ResolvedCategory(txn) ==
  OrElse(LookupOpt(maps.categoryPkMap, txn.categoryId), maps.defaultCategoryPk)

\* C18: the Associated-Titles stage adds, for every pair of category and title,
\* at most one row, and none when a row of the pair was there; the source
\* transactions that share a title and a resolved category yield exactly one.
C18_OneTitleRowPerPair ==
  pc = "done" =>
    /\ \A r \in DOMAIN db.associated_titles :
         LET row == db.associated_titles[r]
             before == TitleCount(prev.associated_titles, row.category_fk, row.title)
             after == TitleCount(db.associated_titles, row.category_fk, row.title)
         IN  after = IF before = 0 THEN 1 ELSE before
    /\ \A i \in TitledTxns :
         LET txn == data.transactions[i]
             before == TitleCount(prev.associated_titles, ResolvedCategory(txn),
                                  txn.title[1])
             after == TitleCount(db.associated_titles, ResolvedCategory(txn),
                                 txn.title[1])
         IN  after = IF before = 0 THEN 1 ELSE before

\* The wallet_fk the k-th row of a source transaction is to carry: the income
\* row of a transfer that of the destination, every other row that of the
\* account.
WalletDue(txn, k) ==
  IF txn.type = "TRANSFER" /\ k = 1
  THEN maps.walletPkMap[txn.toAccountId[1]]
  ELSE maps.walletPkMap[txn.accountId]

\* C19: source accounts of one and the same name are mapped to one wallet key,
\* and the rows of the transactions that refer to them carry it as wallet_fk.
C19_OneWalletPerName ==
  /\ pc \in {"wallets", "categories", "transactions"} =>
       \A i, j \in DOMAIN data.accounts :
         data.accounts[i].name = data.accounts[j].name =>
           /\ data.accounts[i].id \in DOMAIN maps.walletPkMap
           /\ data.accounts[j].id \in DOMAIN maps.walletPkMap
           /\ maps.walletPkMap[data.accounts[i].id] = maps.walletPkMap[data.accounts[j].id]
  /\ pc = "transactions" =>
       \A i \in DOMAIN data.transactions :
         LET txn == data.transactions[i]
             first == Len(prev.transactions) + RowsDueBefore(i)
         IN  \A k \in 1..RowsDue(txn) :
               db.transactions[first + k].wallet_fk = WalletDue(txn, k)

\* Two source accounts bear one name, and a transaction of the second was
\* inserted on the wallet they share.
C19_Witness ==
  /\ pc = "transactions"
  /\ Len(data.accounts) = 2
  /\ data.accounts[1].name = data.accounts[2].name
  /\ \E i \in DOMAIN data.transactions :
       /\ data.transactions[i].accountId = data.accounts[2].id
       /\ RowsDue(data.transactions[i]) = 1
  /\ Len(db.transactions) > Len(prev.transactions)

\* C20: a parsed JSON object that lacks one of accounts, transactions,
\* categories and plannedPaymentRules is rejected with an error and not handed
\* on: the converter runs on complete objects only, and until one was accepted
\* no statement reaches the store.
C20_IncompleteJsonIsRejected ==
  /\ (upload.count > 0 /\ ~({"accounts", "transactions", "categories",
                              "plannedPaymentRules"} \subseteq DOMAIN upload.file)) =>
       upload.error
  /\ pc # "nojson" =>
       {"accounts", "transactions", "categories", "plannedPaymentRules"}
         \subseteq DOMAIN data
  /\ pc = "nojson" => (run = 0 /\ db = start)

\* A complete file was accepted, a file without plannedPaymentRules was then
\* rejected, and the conversion ran on the accepted one.
C20_Witness ==
  /\ upload.count = 2
  /\ upload.error
  /\ "plannedPaymentRules" \notin DOMAIN upload.file
  /\ {"accounts", "transactions", "categories"} \subseteq DOMAIN upload.file
  /\ pc = "done"

\* a <= b for timestamps <<seconds, milliseconds>>.
MsLeq(a, b) == a[1] < b[1] \/ (a[1] = b[1] /\ a[2] <= b[2])

\* The place in transactions of the row inserted for the i-th source
\* transaction, the rows of the current run following those the purge left.
RowOfTxn(i) ==
  Len(db.transactions) - RowsDueBefore(Len(data.transactions) + 1) + RowsDueBefore(i) + 1

\* The occurrences of a rule than which none is dated later.
MostRecent(occurrences) ==
  {o \in occurrences :
     \A p \in occurrences :
       MsLeq(data.transactions[p].dateTime[1], data.transactions[o].dateTime[1])}

\* C21: after the PK-Finalize stage, for every rule with a processed
\* historical transaction exactly one row of transactions is keyed by the
\* rule's canonical identifier, and it is the row inserted for the rule's most
\* recent occurrence.
C21_CanonicalKeyOnMostRecentOccurrence ==
  pc = "finalized" =>
    \A i \in DOMAIN data.plannedPaymentRules :
      LET rule == data.plannedPaymentRules[i]
          held == RowsWithPk("transactions", maps.recurringRuleIdToTxnPk[rule.id])
      IN  Occurrences(rule) # {} =>
            /\ Cardinality(held) = 1
            /\ \E o \in MostRecent(Occurrences(rule)) : RowOfTxn(o) \in held

\* The claim's three cases: the account has no wallet, the timestamp is
\* absent, or the transaction is a TRANSFER to an account without a wallet.
IsSkipped(txn) ==
  \/ txn.accountId \notin DOMAIN maps.walletPkMap
  \/ txn.dateTime = <<>>
  \/ /\ txn.type = "TRANSFER"
     /\ \/ txn.toAccountId = <<>>
        \/ txn.toAccountId[1] \notin DOMAIN maps.walletPkMap

\* The number of rows due to the transactions before the i-th, none being due
\* to a skipped one.
RECURSIVE RowsOfOthersBefore(_)
RowsOfOthersBefore(i) ==
  IF i = 1 THEN 0
  ELSE RowsOfOthersBefore(i - 1)
         + (IF IsSkipped(data.transactions[i - 1]) THEN 0
            ELSE IF data.transactions[i - 1].type = "TRANSFER" THEN 2 ELSE 1)

\* C22: the Transaction stage completes whatever it skips; a skipped source
\* transaction yields no row and no key, and every other transaction of the
\* list, before or after it, has its rows, in list order.
C22_SkippedTransactionsLeaveOthers ==
  pc = "transactions" =>
    /\ Len(db.transactions)
         = Len(prev.transactions) + RowsOfOthersBefore(Len(data.transactions) + 1)
    /\ \A i \in DOMAIN data.transactions :
         LET txn == data.transactions[i]
             first == Len(prev.transactions) + RowsOfOthersBefore(i) + 1
         IN  IF IsSkipped(txn)
             THEN txn.id \notin DOMAIN maps.txnPkMap
             ELSE /\ txn.id \in DOMAIN maps.txnPkMap
                  /\ \A k \in first..(first + Len(maps.txnPkMap[txn.id]) - 1) :
                       /\ db.transactions[k].date_created = FloorSec(txn.dateTime[1])
                       /\ db.transactions[k].name = OrElse(txn.title, DEFAULT_TITLE)
                       /\ db.transactions[k].wallet_fk
                            \in {maps.walletPkMap[txn.accountId]}
                                  \cup {maps.walletPkMap[a] : a \in
                                          {b \in DOMAIN maps.walletPkMap :
                                             txn.toAccountId = <<b>>}}
                  /\ Len(maps.txnPkMap[txn.id])
                       = IF txn.type = "TRANSFER" THEN 2 ELSE 1

\* The stage completed on a list in which a transaction of an account without
\* a wallet precedes one that was inserted.
C22_Witness ==
  /\ pc = "transactions"
  /\ Len(data.transactions) = 2
  /\ data.transactions[1].accountId \notin DOMAIN maps.walletPkMap
  /\ data.transactions[1].dateTime # <<>>
  /\ ~IsSkipped(data.transactions[2])
  /\ Len(db.transactions) = Len(prev.transactions) + 1

\* The source transaction names a rule of plannedPaymentRules.
NamesKnownRule(txn) ==
  /\ txn.recurringRuleId # <<>>
  /\ \E r \in DOMAIN data.plannedPaymentRules :
       data.plannedPaymentRules[r].id = txn.recurringRuleId[1]

\* The type codes: none for EXPENSE, INCOME and TRANSFER.
TypeCode(type) ==
  CASE type = "UPCOMING" -> <<0>>
    [] type = "SUBSCRIPTION" -> <<1>>
    [] type = "REPETITIVE" -> <<2>>
    [] type = "CREDIT" -> <<3>>
    [] type = "DEBT" -> <<4>>
    [] type \in {"EXPENSE", "INCOME", "TRANSFER"} -> NULL

\* The keys the store held before the run, in any table.
KeysAtStart == UNION {{PkOf(t, start[t][i]) : i \in DOMAIN start[t]} : t \in Tables}

\* C23: a non-transfer transaction that names a known rule is inserted as
\* REPETITIVE (2), paid, with created_another_future_transaction = 1; any other
\* non-transfer transaction is inserted under the fresh identifier minted for
\* it, paid, with created_another_future_transaction = 0 and the type code of
\* its source type.
C23_RecurringRowsAreRepetitive ==
  pc = "transactions" =>
    \A i \in DOMAIN data.transactions :
      LET txn == data.transactions[i]
          row == db.transactions[Len(prev.transactions) + RowsDueBefore(i) + 1]
      IN  (HasWalletAndTime(txn) /\ txn.type # "TRANSFER") =>
            /\ row.name = OrElse(txn.title, DEFAULT_TITLE)
            /\ row.paid = 1
            /\ IF NamesKnownRule(txn)
               THEN /\ row.type = <<2>>
                    /\ row.created_another_future_transaction = 1
               ELSE /\ row.type = TypeCode(txn.type)
                    /\ row.created_another_future_transaction = 0
                    /\ row.transaction_pk = maps.txnPkMap[txn.id][1]
                    /\ row.transaction_pk \notin KeysAtStart
                    /\ Cardinality(RowsWithPk("transactions", row.transaction_pk)) = 1

\* The stage inserted an INCOME transaction of a known rule and a SUBSCRIPTION
\* transaction naming a rule the source does not have.
C23_Witness ==
  /\ pc = "transactions"
  /\ \E i, j \in DOMAIN data.transactions :
       /\ data.transactions[i].type = "INCOME"
       /\ NamesKnownRule(data.transactions[i])
       /\ HasWalletAndTime(data.transactions[i])
       /\ data.transactions[j].type = "SUBSCRIPTION"
       /\ data.transactions[j].recurringRuleId # <<>>
       /\ ~NamesKnownRule(data.transactions[j])
       /\ HasWalletAndTime(data.transactions[j])

\* The order values the rows of a table hold.
OrdersUsed(rows) == {rows[i].order : i \in DOMAIN rows}

\* C24: _getNextAvailableOrder returns, and what it returns is the smallest
\* non-negative integer that is the order of no row of the table (0 for an
\* empty table); the table is as it was.
C24_NextOrderIsSmallestUnused ==
  /\ [](probe.at = "returned" =>
          /\ probe.orderNum \in Nat
          /\ probe.orderNum \notin OrdersUsed(start[probe.table])
          /\ \A n \in 0..(probe.orderNum - 1) : n \in OrdersUsed(start[probe.table])
          /\ start[probe.table] = <<>> => probe.orderNum = 0
          /\ probe.orderNum = getNextAvailableOrder(start[probe.table])
          /\ db = start)
  /\ <>(probe.at = "returned")

\* The call returned 1 for a table whose used order values are 0 and 2.
C24_Witness ==
  /\ probe.at = "returned"
  /\ probe.orderNum = 1
  /\ OrdersUsed(db[probe.table]) = {0, 2}

\* C25: after the Category stage, every categories row keyed by what a source
\* category is mapped to has income = 1 when an INCOME source transaction
\* names that category, be the row inserted by the stage or matched by name.
C25_IncomeCategoriesAreFlagged ==
  pc = "categories" =>
    \A c \in DOMAIN data.categories :
      (\E t \in DOMAIN data.transactions :
         /\ data.transactions[t].type = "INCOME"
         /\ data.transactions[t].categoryId = <<data.categories[c].id>>) =>
        \A k \in RowsWithPk("categories", maps.categoryPkMap[data.categories[c].id]) :
          db.categories[k].income = 1

\* The number of rows of transactions that hold the key.
Holding(pk) == Cardinality(RowsWithPk("transactions", pk))

\* C26: no two rows of transactions ever hold the same key; for a rule with k
\* historical transactions the Transaction stage leaves one row under each of
\* canonical::predict::1..k, PK-Finalize moves the row of ::predict::k to the
\* canonical identifier, held by no row before, and the Planned-Payment stage
\* adds the row canonical::predict::(k+1), held by no row before.
C26_TransactionKeysNeverCollide ==
  /\ Cardinality(Pks("transactions")) = Len(db.transactions)
  /\ pc \in {"transactions", "finalized", "planned"} =>
       \A r \in DOMAIN maps.recurringRuleIdToTxnPk :
         LET canonical == maps.recurringRuleIdToTxnPk[r]
             k == maps.recurringRuleIdToCount[r]
             projected == /\ pc = "planned"
                          /\ RuleReachesInsert(recurringRuleIdToObj(data, r), maps)
         IN  /\ \A n \in 1..(k - 1) : Holding(PredictPk(canonical, n)) = 1
             /\ Holding(PredictPk(canonical, k)) = IF pc = "transactions" THEN 1 ELSE 0
             /\ Holding(canonical) = IF pc = "transactions" THEN 0 ELSE 1
             /\ Holding(PredictPk(canonical, k + 1)) = IF projected THEN 1 ELSE 0

\* The Planned-Payment stage projected a rule that has two historical
\* transactions.
C26_Witness ==
  /\ pc = "planned"
  /\ \E r \in DOMAIN maps.recurringRuleIdToTxnPk :
       /\ maps.recurringRuleIdToCount[r] = 2
       /\ Holding(PredictPk(maps.recurringRuleIdToTxnPk[r], 1)) = 1
       /\ Holding(maps.recurringRuleIdToTxnPk[r]) = 1
       /\ Holding(PredictPk(maps.recurringRuleIdToTxnPk[r], 3)) = 1

\* C27: whenever the catch block of jsonToSqliteConvert issues ROLLBACK a
\* transaction is open, and the error it re-throws is the one that made it
\* run, wherever the failure occurred.
C27_RollbackMeetsOpenTransaction ==
  caught # NoCatch => (caught[1].open /\ caught[1].thrown = "original")

\* No two rows of the table have the same order value.
OrdersDistinct(rows) ==
  \A i, j \in DOMAIN rows : rows[i].order = rows[j].order => i = j

\* C28: when the order values of wallets (of categories) were pairwise
\* distinct before a run, they are pairwise distinct after it.
C28_OrdersStayDistinct ==
  pc = "done" =>
    /\ OrdersDistinct(start.wallets) => OrdersDistinct(db.wallets)
    /\ OrdersDistinct(start.categories) => OrdersDistinct(db.categories)

\* The row belongs to a migrated transfer: its note is the one a transfer gets.
IsTransferRow(row) ==
  /\ Len(row.note) >= Len(TransferPrefix)
  /\ SubSeq(row.note, 1, Len(TransferPrefix)) = TransferPrefix

\* C29: in every state the store is left in between stages and after a run,
\* failed runs included, each row with a paired_transaction_fk references an
\* income row of transactions, and each income row of a migrated transfer is
\* referenced by an expense row: a transfer is there with both rows or with
\* none.
C29_TransfersAreWhole ==
  \A i \in DOMAIN db.transactions :
    LET row == db.transactions[i]
    IN  /\ row.paired_transaction_fk # NULL =>
             \E j \in DOMAIN db.transactions :
               /\ db.transactions[j].transaction_pk = row.paired_transaction_fk
               /\ db.transactions[j].income = 1
        /\ (IsTransferRow(row) /\ row.income = 1) =>
             \E j \in DOMAIN db.transactions :
               /\ db.transactions[j].paired_transaction_fk = row.transaction_pk
               /\ db.transactions[j].income = 0
        /\ (IsTransferRow(row) /\ row.income = 0) => row.paired_transaction_fk # NULL

\* The run failed on the second INSERT of a transfer, in a list of two
\* transfers, and transactions is as the purge had left it.
C29_Witness ==
  /\ pc = "error"
  /\ caught # NoCatch
  /\ caught[1].at = "second insert"
  /\ Len(data.transactions) = 2
  /\ IsMappedTransfer(data.transactions[1])
  /\ IsMappedTransfer(data.transactions[2])
  /\ data.transactions[2].dateTime # <<>>
  /\ db.transactions = clearOldData(start).transactions

\* The row the Transaction stage inserted for the o-th source transaction, as
\* the Planned-Payment stage found it.
OccurrenceRow(o) ==
  prev.transactions[Len(prev.transactions) - RowsDueBefore(Len(data.transactions) + 1)
                      + RowsDueBefore(o) + 1]

\* C30: the rows of a rule's historical occurrences and the rule's projected
\* row carry the same reoccurrence code and the same period_length, also when
\* the rule has no intervalType or no intervalN.
C30_OccurrencesMatchProjection ==
  pc = "planned" =>
    \A i \in DOMAIN data.plannedPaymentRules :
      LET rule == data.plannedPaymentRules[i]
      IN  RuleReachesInsert(rule, maps) =>
            \A o \in Occurrences(rule) :
              /\ OccurrenceRow(o).reoccurrence = ProjectedRow(i).reoccurrence
              /\ OccurrenceRow(o).period_length = ProjectedRow(i).period_length

====
